---- MODULE Spec2Model ----
(***************************************************************************)
(* Trade-decision engine of the trading bot: the price aggregator          *)
(* (PriceFeedManager over getTokenPrice and the Pyth HTTP fallback) and    *)
(* the exit engine (ExitEngine over the position repository), the circuit  *)
(* breaker, the risk scoring and the gate of TradeEvaluator, and the       *)
(* orchestration cycle over the detected tokens.                           *)
(*                                                                         *)
(* Time is in milliseconds, prices in integer price units.  A JavaScript   *)
(* value that may be a number or undefined is a pair <<type, value>>; a    *)
(* JavaScript number that results from a division is a record holding a   *)
(* fraction, NaN or an infinity.                                           *)
(***************************************************************************)
EXTENDS Integers, Sequences, FiniteSets, TLC

VARIABLES
    now,            \* Date.now()
    priceCache,     \* PriceFeedManager.priceCache: mint -> PriceFeedData
    birdeyeCache,   \* birdeye.ts module cache, key price:<mint>
    call,           \* the getPriceData invocations in flight, per caller
    writes,         \* history: the latest priceCache.set, per mint
    positions,      \* the positions table of the repository
    exitPc,         \* where checkAndExecuteExits stands
    openPositions,  \* the list getActivePositions returned to the batch
    idx,            \* loop index into openPositions
    exitSignal,     \* the ExitSignal of the position under evaluation
    evaluated,      \* history: the decisions taken in this batch
    updateCalls,    \* history: the updatePositionStatus calls of this batch
    listFetch,      \* history: how getActivePositions ended in this batch
    batchResult,    \* how the batch ended: "none", "resolved", "rejected"
    batches,        \* number of batches started
    exits,          \* history: exits recorded by executeExit, per position
    failures,       \* CircuitBreaker.failures: key -> {count, lastFailure}
    consec,         \* history: failed operations in a row, per key
    pending,        \* operations in flight per key, and when the key last opened
    lastExec,       \* history: the latest execute call, per key
    calc,           \* arguments and results of the risk-scoring functions
    evalCache,      \* TradeEvaluator.priceCache: mint -> PriceFeedData
    evaluation,     \* the evaluateTrade invocation and its outcome
    cycle,          \* the orchestration cycle over the detected tokens
    signalRun,      \* the processTradeSignal invocation and its effects
    execution,      \* the TradeExecutor.executeTrade invocation
    queue,          \* RetryQueue: the jobs waiting and the pass of processQueue
    shared,         \* RetryQueue under overlapping enqueue calls
    ttl,            \* a TTLCache: its Map, and as history its latest operation
    http            \* RateLimitedHttpClient: its options and the request call

priceVars == <<priceCache, birdeyeCache, call, writes>>
exitVars == <<positions, exitPc, openPositions, idx, exitSignal, evaluated,
              updateCalls, listFetch, batchResult, batches, exits>>
breakerVars == <<failures, consec, lastExec, pending>>
riskVars == <<calc>>
evalVars == <<evalCache, evaluation>>
cycleVars == <<cycle>>
utilVars == <<shared, ttl, http>>
tradeVars == <<signalRun, execution, queue, utilVars>>
restVars == <<breakerVars, riskVars, evalVars, cycleVars, tradeVars>>
vars == <<now, priceCache, birdeyeCache, call, positions, exitPc,
          openPositions, idx, exitSignal, evaluated, updateCalls,
          listFetch, batchResult, batches, failures, consec, lastExec,
          calc, evalCache, evaluation, cycle, signalRun, execution,
          exits, writes, queue, pending, shared,
          ttl, http>>

----------------------------------------------------------------------------
(* Bounds of the model *)

MaxBatches == 2

Mints == {"mintA", "mintB"}
PosIds == {1, 2}
PriceVals == {0, 1}
ConfVals == {0, 50}
ExitPrices == {18, 22, 23}
EntryPrices == {0, 20}
Amounts == {0, 1}
EntryTimes == {0, 1}
ExitClock == {0, 3599999, 3600000, 3600001}
PriceClock == {0, 59999, 60000}
Callers == {"c1", "c2"}
MaxConsec == 10
MaxInFlight == 2
Keys == {"birdeye", "jupiter"}
BreakerClock == {0, 1, 60000, 60001}
Volatilities == {<<0, 1>>, <<1, 2>>, <<3, 2>>}
Depths == {<<0, 1>>, <<1, 1>>, <<4, 1>>}
MarketCaps == {<<0, 1>>, <<500000, 1>>, <<2000000, 1>>}
Reliabilities == {<<0, 1>>, <<81, 100>>, <<2, 1>>}
Slippages == {<<0, 1>>, <<1, 4>>, <<1, 1>>}
WalletRisks == {<<1, 10>>, <<1, 1>>}
Scores == {<<1, 50>>, <<67, 100>>, <<4, 5>>}
MaxEvaluations == 2
Supplies == {0, 1000000}
MinLiquidities == {0 - 1, 10000}
PythConfidences == {<<0, 1>>, <<1, 2>>, <<50, 1>>}
MaxCycles == 2
CycleClock == {0, 1, 300000, 300001, 600000}
MaxSignals == 3
MaxExecutions == 2
JupiterQuotes == {<<100, 100>>, <<101, 100>>, <<103, 100>>, <<0, 0>>}
SignalPrices == {0, 1}
MaxEnqueues == 3
Passes == {1, 2}
MaxOverlapping == 2
TtlMs == 1000
CacheClock == {0, 1, TtlMs, TtlMs + 1, 2 * TtlMs + 2}
CacheKeys == {"u1", "u2"}
CacheValues == {"r1", "r2"}
MaxRequests == 2
HttpErrors == {"429", "ECONNABORTED", "ENOTFOUND", "500"}
JobKeys == {"k1", "k2"}
SignalConfidences == {<<1, 2>>, <<67, 100>>, <<4, 5>>}
SignalRisks == {<<1, 20>>, <<1, 10>>, <<1, 5>>}
PriceCallers == {"c1"}

----------------------------------------------------------------------------
(* JavaScript values *)

Num(p) == <<"number", p>>
Undefined == <<"undefined", 0>>
typeof(v) == v[1]
JSPrices == {Num(p) : p \in PriceVals} \cup {Undefined}
QuotePrices == {Num(p) : p \in ExitPrices} \cup {Undefined}

Fin(n, d) == [k |-> "fin", n |-> n, d |-> d]
NaN == [k |-> "nan", n |-> 0, d |-> 1]
PosInf == [k |-> "inf", n |-> 0, d |-> 1]
NegInf == [k |-> "ninf", n |-> 0, d |-> 1]
Null == [k |-> "null", n |-> 0, d |-> 1]
Zero == Fin(0, 1)

\* n / d on IEEE numbers holding the integers n and d
JSDiv(n, d) ==
    IF d = 0
    THEN IF n = 0 THEN NaN ELSE IF n > 0 THEN PosInf ELSE NegInf
    ELSE IF d > 0 THEN Fin(n, d) ELSE Fin(0 - n, 0 - d)

\* x >= tn/td and x <= tn/td, td > 0; a comparison with NaN is false
JSGe(x, t) ==
    \/ x.k = "inf"
    \/ x.k = "fin" /\ x.n * t[2] >= t[1] * x.d
JSLe(x, t) ==
    \/ x.k = "ninf"
    \/ x.k = "fin" /\ x.n * t[2] <= t[1] * x.d

\* x === y on numbers: NaN equals nothing
JSEq(x, y) ==
    \/ x.k = "fin" /\ y.k = "fin" /\ x.n * y.d = y.n * x.d
    \/ x.k = y.k /\ x.k \in {"inf", "ninf"}

\* x || 0
OrZero(x) ==
    IF x.k \in {"nan", "null"} \/ (x.k = "fin" /\ x.n = 0) THEN Zero ELSE x

\* arithmetic on JavaScript numbers: finite values are exact fractions in
\* lowest terms, the rest follows IEEE 754 (x/0, Infinity, NaN)
Abs(i) == IF i < 0 THEN 0 - i ELSE i

RECURSIVE GCD(_, _)
GCD(a, b) == IF b = 0 THEN a ELSE GCD(b, a % b)

Rat(n, d) ==
    LET g == GCD(Abs(n), Abs(d))
        s == IF d < 0 THEN 0 - 1 ELSE 1
    IN Fin((s * n) \div g, (s * d) \div g)

\* the sign of a number that is not NaN
Sgn(x) ==
    IF x.k = "inf" THEN 1
    ELSE IF x.k = "ninf" THEN 0 - 1
    ELSE IF x.n > 0 THEN 1 ELSE IF x.n < 0 THEN 0 - 1 ELSE 0

IsFinite(x) == x.k = "fin"

Signed(s) == IF s > 0 THEN PosInf ELSE IF s < 0 THEN NegInf ELSE NaN

\* x + y
JSAdd(x, y) ==
    IF x.k = "nan" \/ y.k = "nan" THEN NaN
    ELSE IF x.k = "fin" /\ y.k = "fin"
    THEN Rat(x.n * y.d + y.n * x.d, x.d * y.d)
    ELSE IF x.k = "fin" THEN y
    ELSE IF y.k = "fin" \/ y.k = x.k THEN x
    ELSE NaN

\* -x
JSNeg(x) ==
    IF x.k = "fin" THEN Fin(0 - x.n, x.d)
    ELSE IF x.k = "inf" THEN NegInf
    ELSE IF x.k = "ninf" THEN PosInf ELSE NaN

\* x - y
JSSub(x, y) == JSAdd(x, JSNeg(y))

\* x * y
JSMul(x, y) ==
    IF x.k = "nan" \/ y.k = "nan" THEN NaN
    ELSE IF x.k = "fin" /\ y.k = "fin" THEN Rat(x.n * y.n, x.d * y.d)
    ELSE Signed(Sgn(x) * Sgn(y))

\* x / y, zero taken as +0
JSQuot(x, y) ==
    IF x.k = "nan" \/ y.k = "nan" THEN NaN
    ELSE IF x.k = "fin" /\ y.k = "fin"
    THEN IF y.n = 0 THEN Signed(Sgn(x)) ELSE Rat(x.n * y.d, x.d * y.n)
    ELSE IF x.k = "fin" THEN Zero
    ELSE IF y.k = "fin" THEN Signed(Sgn(x) * (IF y.n < 0 THEN 0 - 1 ELSE 1))
    ELSE NaN

\* x < y and x <= y; a comparison with NaN is false
JSLt(x, y) ==
    /\ x.k # "nan" /\ y.k # "nan"
    /\ \/ x.k = "ninf" /\ y.k # "ninf"
       \/ y.k = "inf" /\ x.k # "inf"
       \/ x.k = "fin" /\ y.k = "fin" /\ x.n * y.d < y.n * x.d

JSLeq(x, y) == JSLt(x, y) \/ JSEq(x, y)

\* Math.min(x, y), Math.max(x, y), Math.abs(x)
MathMin(x, y) ==
    IF x.k = "nan" \/ y.k = "nan" THEN NaN ELSE IF JSLt(y, x) THEN y ELSE x

MathMax(x, y) ==
    IF x.k = "nan" \/ y.k = "nan" THEN NaN ELSE IF JSLt(x, y) THEN y ELSE x

MathAbs(x) ==
    IF x.k = "fin" THEN Fin(Abs(x.n), x.d)
    ELSE IF x.k = "nan" THEN NaN ELSE PosInf

\* x || y on numbers: 0 and NaN are falsy
OrElse(x, y) == IF x.k = "nan" \/ (x.k = "fin" /\ x.n = 0) THEN y ELSE x

One == Fin(1, 1)

----------------------------------------------------------------------------
(* Price aggregator: src/src/lib/priceFeeds.ts, getTokenPrice, providers *)

PRICE_CACHE_TTL == 60000
CACHE_TTL_MS == 60 * 1000
JUPITER_CONFIDENCE == 90

NoQuote == [price |-> Undefined, source |-> "none", timestamp |-> 0,
            confidence |-> 0]
PriceFeedData(p, s, t, c) ==
    [price |-> p, source |-> s, timestamp |-> t, confidence |-> c]

NoEntry == [value |-> Undefined, expiry |-> 0]

\* a getPriceData invocation: where it stands, its argument, the cache entry
\* it found and when, and as history the providers it tried, whether each
\* answer was usable, who produced the result, and which attempts' failure
\* reasons the thrown error carries
\* no priceCache.set so far
NoWrite == [timestamp |-> 0, by |-> "none"]

IdleCall == [pc |-> "idle", mint |-> "mintA", cached |-> NoQuote,
             started |-> 0, attempts |-> <<>>, usable |-> <<>>,
             producer |-> "none", result |-> NoQuote, error |-> <<>>]

\* a provider response the aggregator is meant to accept (spec 4.1)
Usable(p, c) == typeof(p) = "number" /\ p[2] > 0 /\ c # 0

\* the cache test with the TTL taken for seconds
FreshSeconds(cached, t) ==
    cached # NoQuote /\ t - cached.timestamp < PRICE_CACHE_TTL \div 1000

\* getPriceData lines 39-42: the cached entry is served while its age is
\* below the TTL
Fresh(cached, t) == cached # NoQuote /\ t - cached.timestamp < PRICE_CACHE_TTL

\* birdeye.ts getCache: an entry is served while Date.now() < expiry
getCache(entry, t) == entry # NoEntry /\ t < entry.expiry

\* the type test against the wrong type name
AcceptedString(p) == typeof(p) = "string"

\* getTokenPrice: a provider's answer is taken when its price is a number
Accepted(p) == typeof(p) = "number"

\* the quote of getTokenPrice left without the time of the write
TokenPriceDataUnstamped(p, producer, t) ==
    PriceFeedData(p, "jupiter", 0, JUPITER_CONFIDENCE)

\* priceFeeds.ts lines 45-50: what getTokenPrice returned is tagged jupiter,
\* whichever provider produced it
TokenPriceData(p, producer, t) ==
    PriceFeedData(p, "jupiter", t, JUPITER_CONFIDENCE)

\* priceFeeds.ts lines 61-66: the answer of getPythPriceHttp
PythHttpData(p, c, t) == PriceFeedData(p, "pyth", t, c)

InFlight(c) == call[c].pc \in {"birdeye", "jupiter", "pyth", "pythHttp"}

Attempt(c, provider, ok) ==
    [call[c] EXCEPT !.attempts = Append(@, provider),
                    !.usable = Append(call[c].usable, ok)]

\* the call stores data only in an empty slot
ReturnKeepFirst(c, rec, data, producer) ==
    /\ priceCache' = IF priceCache[rec.mint] = NoQuote
                     THEN [priceCache EXCEPT ![rec.mint] = data]
                     ELSE priceCache
    /\ writes' = [writes EXCEPT ![rec.mint] =
                    [timestamp |-> data.timestamp, by |-> c]]
    /\ call' = [call EXCEPT ![c] = [rec EXCEPT !.pc = "returned",
                                              !.result = data,
                                              !.producer = producer]]

\* the call stores data in the cache and returns it
Return(c, rec, data, producer) ==
    /\ priceCache' = [priceCache EXCEPT ![rec.mint] = data]
    /\ writes' = [writes EXCEPT ![rec.mint] =
                    [timestamp |-> data.timestamp, by |-> c]]
    /\ call' = [call EXCEPT ![c] = [rec EXCEPT !.pc = "returned",
                                              !.result = data,
                                              !.producer = producer]]

\* the provider failed (threw, or gave nothing getTokenPrice takes); the
\* chain goes on with the next one
FallThrough(c, rec, provider, next) ==
    /\ call' = [call EXCEPT ![c] = [rec EXCEPT !.pc = next]]
    /\ UNCHANGED <<priceCache, writes>>

\* getPriceData up to its first await (lines 38-44)
StartGetPriceData(c, m) ==
    /\ ~InFlight(c)
    /\ LET cached == priceCache[m] IN
       call' = [call EXCEPT ![c] =
                  IF Fresh(cached, now)
                  THEN [IdleCall EXCEPT !.pc = "returned", !.mint = m,
                                        !.cached = cached, !.started = now,
                                        !.result = cached,
                                        !.producer = "cache"]
                  ELSE [IdleCall EXCEPT !.pc = "birdeye", !.mint = m,
                                        !.cached = cached, !.started = now]]
    /\ UNCHANGED <<priceCache, birdeyeCache, writes>>

GetPriceData(c, m) ==
    /\ StartGetPriceData(c, m)
    /\ UNCHANGED <<now, exitVars, restVars>>

\* getTokenPrice, BirdeyeProvider.getCurrentPrice served from its own cache
BirdeyeCached(c) ==
    /\ call[c].pc = "birdeye"
    /\ getCache(birdeyeCache[call[c].mint], now)
    /\ LET v == birdeyeCache[call[c].mint].value
           rec == Attempt(c, "birdeye", Usable(v, 95))
       IN IF Accepted(v)
          THEN Return(c, rec, TokenPriceData(v, "birdeye", now), "birdeye")
          ELSE FallThrough(c, rec, "birdeye", "jupiter")
    /\ UNCHANGED <<now, birdeyeCache, exitVars, restVars>>

\* BirdeyeProvider.getCurrentPrice over HTTP: the request throws or the
\* response holds no data
BirdeyeFails(c) ==
    /\ call[c].pc = "birdeye"
    /\ ~getCache(birdeyeCache[call[c].mint], now)
    /\ FallThrough(c, Attempt(c, "birdeye", FALSE), "birdeye", "jupiter")
    /\ UNCHANGED <<now, birdeyeCache, exitVars, restVars>>

\* BirdeyeProvider.getCurrentPrice over HTTP: data.value is cached by the
\* provider, and returned by getTokenPrice when it is a number
BirdeyeAnswers(c) ==
    /\ call[c].pc = "birdeye"
    /\ ~getCache(birdeyeCache[call[c].mint], now)
    /\ \E v \in JSPrices :
         LET rec == Attempt(c, "birdeye", Usable(v, 95)) IN
         /\ birdeyeCache' = [birdeyeCache EXCEPT ![call[c].mint] =
                               [value |-> v, expiry |-> now + CACHE_TTL_MS]]
         /\ IF Accepted(v)
            THEN Return(c, rec, TokenPriceData(v, "birdeye", now), "birdeye")
            ELSE FallThrough(c, rec, "birdeye", "jupiter")
    /\ UNCHANGED <<now, exitVars, restVars>>

\* JupiterProvider.getCurrentPrice throws, or returns undefined because the
\* price is no number
JupiterFails(c) ==
    /\ call[c].pc = "jupiter"
    /\ FallThrough(c, Attempt(c, "jupiter", FALSE), "jupiter", "pyth")
    /\ UNCHANGED <<now, birdeyeCache, exitVars, restVars>>

JupiterAnswers(c) ==
    /\ call[c].pc = "jupiter"
    /\ \E p \in PriceVals :
         LET rec == Attempt(c, "jupiter", Usable(Num(p), JUPITER_CONFIDENCE))
         IN IF Accepted(Num(p))
            THEN Return(c, rec, TokenPriceData(Num(p), "jupiter", now),
                        "jupiter")
            ELSE FallThrough(c, rec, "jupiter", "pyth")
    /\ UNCHANGED <<now, birdeyeCache, exitVars, restVars>>

\* PythProvider.getCurrentPrice inside getTokenPrice throws or returns
\* undefined; getTokenPrice throws and getPriceData turns to getPythPriceHttp
PythFails(c) ==
    /\ call[c].pc = "pyth"
    /\ FallThrough(c, Attempt(c, "pyth", FALSE), "pyth", "pythHttp")
    /\ UNCHANGED <<now, birdeyeCache, exitVars, restVars>>

PythAnswers(c) ==
    /\ call[c].pc = "pyth"
    /\ \E v \in JSPrices, cf \in ConfVals :
         LET rec == Attempt(c, "pyth", Usable(v, cf)) IN
         IF Accepted(v)
         THEN Return(c, rec, TokenPriceData(v, "pyth", now), "pyth")
         ELSE FallThrough(c, rec, "pyth", "pythHttp")
    /\ UNCHANGED <<now, birdeyeCache, exitVars, restVars>>

\* getPythPriceHttp throws (no mapping, request failed, no price data):
\* lines 69-76, the error of this last attempt alone is thrown
PythHttpFails(c) ==
    /\ call[c].pc = "pythHttp"
    /\ LET rec == Attempt(c, "pyth", FALSE) IN
       call' = [call EXCEPT ![c] =
                  [rec EXCEPT !.pc = "threw",
                              !.error = <<Len(rec.attempts)>>]]
    /\ UNCHANGED <<now, priceCache, birdeyeCache, writes, exitVars,
                   restVars>>

PythHttpAnswers(c) ==
    /\ call[c].pc = "pythHttp"
    /\ \E v \in JSPrices, cf \in ConfVals :
         Return(c, Attempt(c, "pyth", Usable(v, cf)),
                PythHttpData(v, cf, now), "pyth")
    /\ UNCHANGED <<now, birdeyeCache, exitVars, restVars>>

\* PriceFeedManager.clearCache
clearCache ==
    /\ priceCache' = [m \in Mints |-> NoQuote]
    /\ UNCHANGED <<now, birdeyeCache, call, writes, exitVars, restVars>>

ProviderStep(c) ==
    \/ BirdeyeCached(c)
    \/ BirdeyeFails(c)
    \/ BirdeyeAnswers(c)
    \/ JupiterFails(c)
    \/ JupiterAnswers(c)
    \/ PythFails(c)
    \/ PythAnswers(c)
    \/ PythHttpFails(c)
    \/ PythHttpAnswers(c)

----------------------------------------------------------------------------
(* Exit engine: ExitEngine over the position repository *)

TAKE_PROFIT_THRESHOLD == <<15, 100>>
STOP_LOSS_THRESHOLD == <<0 - 10, 100>>
MAX_HOLDING_TIME == 60 * 60 * 1000

Orders(S) ==
    {q \in [1..Cardinality(S) -> S] : \A a, b \in 1..Cardinality(S) :
                                         a # b => q[a] # q[b]}

Row(i, m, ep, a, et) ==
    [id |-> i, token_mint |-> m, entry_price |-> ep, amount |-> a,
     entry_time |-> et, unrealizedPnL |-> Null, realizedPnL |-> Null]

NoSignal == [shouldExit |-> FALSE, reason |-> "", currentPnL |-> NaN]

\* ExitEngine.positionToTradeResult
positionToTradeResult(pos) ==
    [mint |-> pos.token_mint, action |-> "SELL", amount |-> pos.amount,
     price |-> pos.entry_price, timestamp |-> pos.entry_time,
     unrealizedPnL |-> pos.unrealizedPnL, realizedPnL |-> pos.realizedPnL]

\* checkExitConditions, the three lines computing currentPnL:
\* (amount * currentPrice - amount * price) / (amount * price)
CurrentPnL(trade, currentPrice) ==
    IF typeof(currentPrice) # "number"
    THEN NaN
    ELSE JSDiv(trade.amount * currentPrice[2] - trade.amount * trade.price,
               trade.amount * trade.price)

Signal(exit, reason, pnl) ==
    [shouldExit |-> exit, reason |-> reason, currentPnL |-> pnl]

\* checkExitConditions with the time-based rule tested first
checkExitConditionsTimeFirst(trade, quote, t) ==
    LET currentPnL == CurrentPnL(trade, quote.price)
        holdingTime == t - trade.timestamp
    IN IF holdingTime >= MAX_HOLDING_TIME
       THEN Signal(TRUE, "Maximum holding time reached", currentPnL)
       ELSE IF JSGe(currentPnL, TAKE_PROFIT_THRESHOLD)
       THEN Signal(TRUE, "Take profit triggered", currentPnL)
       ELSE IF JSLe(currentPnL, STOP_LOSS_THRESHOLD)
       THEN Signal(TRUE, "Stop loss triggered", currentPnL)
       ELSE Signal(FALSE, "No exit conditions met", currentPnL)

\* checkExitConditions with an exclusive take-profit threshold
checkExitConditionsStrict(trade, quote, t) ==
    LET currentPnL == CurrentPnL(trade, quote.price)
        holdingTime == t - trade.timestamp
    IN IF JSGe(currentPnL, TAKE_PROFIT_THRESHOLD)
          /\ ~JSLe(currentPnL, TAKE_PROFIT_THRESHOLD)
       THEN Signal(TRUE, "Take profit triggered", currentPnL)
       ELSE IF JSLe(currentPnL, STOP_LOSS_THRESHOLD)
       THEN Signal(TRUE, "Stop loss triggered", currentPnL)
       ELSE IF holdingTime >= MAX_HOLDING_TIME
       THEN Signal(TRUE, "Maximum holding time reached", currentPnL)
       ELSE Signal(FALSE, "No exit conditions met", currentPnL)

\* ExitEngine.checkExitConditions after getPriceData has returned quote; t is
\* Date.now() of the time-based check
checkExitConditions(trade, quote, t) ==
    LET currentPnL == CurrentPnL(trade, quote.price)
        holdingTime == t - trade.timestamp
    IN IF JSGe(currentPnL, TAKE_PROFIT_THRESHOLD)
       THEN Signal(TRUE, "Take profit triggered", currentPnL)
       ELSE IF JSLe(currentPnL, STOP_LOSS_THRESHOLD)
       THEN Signal(TRUE, "Stop loss triggered", currentPnL)
       ELSE IF holdingTime >= MAX_HOLDING_TIME
       THEN Signal(TRUE, "Maximum holding time reached", currentPnL)
       ELSE Signal(FALSE, "No exit conditions met", currentPnL)

\* executeExit with the two P&L fields of the update swapped
ExitUpdateSwapped(pos, signal) ==
    [pos EXCEPT !.realizedPnL = Zero, !.unrealizedPnL = signal.currentPnL]

\* executeExit: the position object handed to updatePositionStatus
ExitUpdate(pos, signal) ==
    [pos EXCEPT !.realizedPnL = signal.currentPnL, !.unrealizedPnL = Zero]

\* DatabaseManager.updatePositionStatus: UPDATE positions SET unrealizedPnL,
\* realizedPnL WHERE tokenMint = ?
updatePositionStatus(rows, tokenMint, position) ==
    [i \in DOMAIN rows |->
       IF rows[i].token_mint = tokenMint
       THEN [rows[i] EXCEPT !.unrealizedPnL = OrZero(position.unrealizedPnL),
                            !.realizedPnL = OrZero(position.realizedPnL)]
       ELSE rows[i]]

\* DatabaseManager.getActivePositions: WHERE realizedPnL IS NULL
ActiveIds(rows) == {i \in DOMAIN rows : rows[i].realizedPnL = Null}

\* checkAndExecuteExits: getActivePositions resolves; SQL fixes no order
FetchOpenPositions ==
    /\ exitPc \in {"idle", "done"}
    /\ batches < MaxBatches
    /\ \E order \in Orders(ActiveIds(positions)) :
         openPositions' = [j \in DOMAIN order |-> positions[order[j]]]
    /\ idx' = 1
    /\ exitPc' = "loop"
    /\ evaluated' = <<>>
    /\ updateCalls' = <<>>
    /\ listFetch' = "ok"
    /\ batchResult' = "none"
    /\ exitSignal' = NoSignal
    /\ batches' = batches + 1
    /\ UNCHANGED <<now, restVars, priceVars, positions, exits>>

\* checkAndExecuteExits with a catch block that logs and does not rethrow
FetchOpenPositionsFailsSwallowed ==
    /\ exitPc \in {"idle", "done"}
    /\ batches < MaxBatches
    /\ openPositions' = <<>>
    /\ idx' = 1
    /\ exitPc' = "done"
    /\ evaluated' = <<>>
    /\ updateCalls' = <<>>
    /\ listFetch' = "failed"
    /\ batchResult' = "resolved"
    /\ exitSignal' = NoSignal
    /\ batches' = batches + 1
    /\ UNCHANGED <<now, restVars, priceVars, positions, exits>>

\* checkAndExecuteExits: getActivePositions rejects; the catch block logs and
\* rethrows
FetchOpenPositionsFails ==
    /\ exitPc \in {"idle", "done"}
    /\ batches < MaxBatches
    /\ openPositions' = <<>>
    /\ idx' = 1
    /\ exitPc' = "done"
    /\ evaluated' = <<>>
    /\ updateCalls' = <<>>
    /\ listFetch' = "failed"
    /\ batchResult' = "rejected"
    /\ exitSignal' = NoSignal
    /\ batches' = batches + 1
    /\ UNCHANGED <<now, restVars, priceVars, positions, exits>>

\* checkExitConditions writing the P&L it computed into the stored position
CheckPositionWrites ==
    /\ exitPc = "loop"
    /\ idx <= Len(openPositions)
    /\ \E v \in QuotePrices :
         LET pos == openPositions[idx]
             quote == PriceFeedData(v, "jupiter", now, JUPITER_CONFIDENCE)
             signal == checkExitConditions(positionToTradeResult(pos),
                                           quote, now)
         IN /\ exitSignal' = signal
            /\ positions' = [positions EXCEPT
                              ![pos.id].unrealizedPnL = signal.currentPnL]
            /\ evaluated' = Append(evaluated,
                                   [id |-> pos.id, pos |-> pos,
                                    signal |-> signal,
                                    price |-> quote.price,
                                    holdingTime |-> now - pos.entry_time])
            /\ IF signal.shouldExit
               THEN exitPc' = "executeExit" /\ idx' = idx
               ELSE exitPc' = "loop" /\ idx' = idx + 1
    /\ UNCHANGED <<now, restVars, priceVars, openPositions, updateCalls,
                   listFetch, batchResult, batches, exits>>

\* the for loop takes the next position: positionToTradeResult, then
\* checkExitConditions, whose getPriceData resolves with a quote (served from
\* the cache or fetched: any price SpecPrice shows it can hold)
CheckPosition ==
    /\ exitPc = "loop"
    /\ idx <= Len(openPositions)
    /\ \E v \in QuotePrices :
         LET pos == openPositions[idx]
             quote == PriceFeedData(v, "jupiter", now, JUPITER_CONFIDENCE)
             signal == checkExitConditions(positionToTradeResult(pos),
                                           quote, now)
         IN /\ exitSignal' = signal
            /\ evaluated' = Append(evaluated,
                                   [id |-> pos.id, pos |-> pos,
                                    signal |-> signal,
                                    price |-> quote.price,
                                    holdingTime |-> now - pos.entry_time])
            /\ IF signal.shouldExit
               THEN exitPc' = "executeExit" /\ idx' = idx
               ELSE exitPc' = "loop" /\ idx' = idx + 1
    /\ UNCHANGED <<now, restVars, priceVars, positions, openPositions, updateCalls,
                   listFetch, batchResult, batches, exits>>

\* getPriceData rejects: checkExitConditions logs and rethrows, the loop has
\* no handler of its own, and the catch block of checkAndExecuteExits rethrows
CheckPositionThrows ==
    /\ exitPc = "loop"
    /\ idx <= Len(openPositions)
    /\ exitPc' = "done"
    /\ batchResult' = "rejected"
    /\ UNCHANGED <<now, restVars, priceVars, positions, openPositions, idx, exitSignal,
                   evaluated, updateCalls, listFetch, batches, exits>>

\* executeExit: updatePositionStatus resolves, executeExit returns true
ExecuteExit ==
    /\ exitPc = "executeExit"
    /\ LET pos == openPositions[idx]
           upd == ExitUpdate(pos, exitSignal)
       IN /\ positions' = updatePositionStatus(positions, pos.token_mint, upd)
          /\ updateCalls' = Append(updateCalls,
                                   [tokenMint |-> pos.token_mint,
                                    position |-> upd, ok |-> TRUE,
                                    returned |-> TRUE, index |-> idx])
          /\ exits' = [exits EXCEPT ![pos.id] = exits[pos.id] + 1]
    /\ exitPc' = "loop"
    /\ idx' = idx + 1
    /\ UNCHANGED <<now, restVars, priceVars, openPositions, exitSignal, evaluated,
                   listFetch, batchResult, batches>>

\* executeExit without its catch block: the rejection of the update leaves
\* executeExit, and checkAndExecuteExits rethrows it
ExecuteExitFailsThrows ==
    /\ exitPc = "executeExit"
    /\ LET pos == openPositions[idx]
           upd == ExitUpdate(pos, exitSignal)
       IN updateCalls' = Append(updateCalls,
                                [tokenMint |-> pos.token_mint,
                                 position |-> upd, ok |-> FALSE,
                                 returned |-> FALSE, index |-> idx])
    /\ exitPc' = "done"
    /\ batchResult' = "rejected"
    /\ UNCHANGED <<now, restVars, priceVars, positions, openPositions, idx,
                   exitSignal, evaluated, listFetch, batches, exits>>

\* executeExit: updatePositionStatus rejects, executeExit logs and returns
\* false
ExecuteExitFails ==
    /\ exitPc = "executeExit"
    /\ LET pos == openPositions[idx]
           upd == ExitUpdate(pos, exitSignal)
       IN updateCalls' = Append(updateCalls,
                                [tokenMint |-> pos.token_mint,
                                 position |-> upd, ok |-> FALSE,
                                 returned |-> FALSE, index |-> idx])
    /\ exitPc' = "loop"
    /\ idx' = idx + 1
    /\ UNCHANGED <<now, restVars, priceVars, positions, openPositions, exitSignal,
                   evaluated, listFetch, batchResult, batches, exits>>

\* the loop has run over the whole list: checkAndExecuteExits resolves
LoopDone ==
    /\ exitPc = "loop"
    /\ idx > Len(openPositions)
    /\ exitPc' = "done"
    /\ batchResult' = "resolved"
    /\ UNCHANGED <<now, restVars, priceVars, positions, openPositions, idx, exitSignal,
                   evaluated, updateCalls, listFetch, batches, exits>>

\* PnLMonitor.calculatePnL: amount * currentPrice - amount * price
calculatePnL(position, currentPrice) ==
    Fin(position.amount * currentPrice
          - position.amount * position.entry_price, 1)

\* the loop of PnLMonitor.monitor over the positions it fetched, q the
\* prices getTokenPrice gives: updatePositionStatus(mint, {...position,
\* unrealizedPnL: pnl}) for each
RECURSIVE MonitorRows(_, _, _)
MonitorRows(rows, list, q) ==
    IF list = <<>>
    THEN rows
    ELSE LET position == list[1]
             mint == position.token_mint
             pnl == calculatePnL(position, q[mint])
         IN MonitorRows(updatePositionStatus(
                            rows, mint,
                            [position EXCEPT !.unrealizedPnL = pnl]),
                        Tail(list), q)

\* PnLMonitor.monitor between two batches of the exit engine:
\* getActivePositions resolves, the loop updates the first done positions,
\* and then either is through or getTokenPrice rejects and monitor rethrows
Monitor ==
    /\ exitPc \in {"idle", "done"}
    /\ \E order \in Orders(ActiveIds(positions)),
          q \in [Mints -> ExitPrices] :
         \E done \in 0..Len(order) :
           positions' = MonitorRows(
                            positions,
                            [j \in 1..done |-> positions[order[j]]], q)
    /\ UNCHANGED <<now, restVars, priceVars, exitPc, openPositions, idx,
                   exitSignal, evaluated, updateCalls, listFetch,
                   batchResult, batches, exits>>

\* time passes
TickExit ==
    /\ \E t \in ExitClock : t > now /\ now' = t
    /\ UNCHANGED <<priceVars, exitVars, restVars>>

TickPrice ==
    /\ \E t \in PriceClock : t > now /\ now' = t
    /\ UNCHANGED <<priceVars, exitVars, restVars>>

----------------------------------------------------------------------------
(* CircuitBreaker: src/src/lib/birdeye.ts lines 103-166 *)

FAILURE_THRESHOLD == 5
RESET_TIMEOUT_MS == 60000

\* no entry in the failures map
NoFailure == [count |-> 0, lastFailure |-> 0]

\* history of a key: failed operations in a row since the last success
\* (all), since the last success or cool-down expiry (run), and the time of
\* the latest failure
NoHistory == [all |-> 0, run |-> 0, at |-> 0]

NoExec == [kind |-> "none", at |-> 0, before |-> NoFailure,
           history |-> NoHistory]

\* isOpen with the threshold itself still letting calls through
isOpenAboveThreshold(failure, t) ==
    /\ failure # NoFailure
    /\ failure.count > FAILURE_THRESHOLD
    /\ t - failure.lastFailure < RESET_TIMEOUT_MS

\* isOpen with the cool-down still running at resetTimeoutMs itself
isOpenInclusive(failure, t) ==
    /\ failure # NoFailure
    /\ failure.count >= FAILURE_THRESHOLD
    /\ t - failure.lastFailure <= RESET_TIMEOUT_MS

\* CircuitBreaker.isOpen, its result
isOpen(failure, t) ==
    /\ failure # NoFailure
    /\ failure.count >= FAILURE_THRESHOLD
    /\ t - failure.lastFailure < RESET_TIMEOUT_MS

\* CircuitBreaker.isOpen, its effect: at the threshold with the cool-down
\* over, the entry is deleted (this.reset(key))
CooledDown(failure, t) ==
    /\ failure # NoFailure
    /\ failure.count >= FAILURE_THRESHOLD
    /\ ~isOpen(failure, t)

\* isOpen leaving the entry in place when the cool-down is over
afterIsOpenKeepsEntry(failure, t) == failure

afterIsOpen(failure, t) == IF CooledDown(failure, t) THEN NoFailure ELSE failure

\* CircuitBreaker.recordFailure
recordFailure(failure, t) ==
    [count |-> failure.count + 1, lastFailure |-> t]

Executed(k, kind) ==
    [kind |-> kind, at |-> now, before |-> failures[k],
     history |-> consec[k]]

\* execute while the breaker is open: rejects, the operation is not invoked
ExecuteRejected(k) ==
    /\ isOpen(failures[k], now)
    /\ lastExec' = [lastExec EXCEPT ![k] = Executed(k, "rejected")]
    /\ UNCHANGED <<now, failures, consec, pending, priceVars, exitVars,
                   riskVars, evalVars, cycleVars, tradeVars>>

\* execute with a reset that clears the whole failures map
ExecuteSucceedsClearsAll(k) ==
    /\ ~isOpen(failures[k], now)
    /\ failures' = [o \in Keys |-> NoFailure]
    /\ consec' = [consec EXCEPT ![k] = NoHistory]
    /\ lastExec' = [lastExec EXCEPT ![k] = Executed(k, "succeeded")]
    /\ UNCHANGED <<now, pending, priceVars, exitVars, riskVars, evalVars,
                   cycleVars, tradeVars>>

\* execute, the operation resolves: reset(key)
ExecuteSucceeds(k) ==
    /\ ~isOpen(failures[k], now)
    /\ failures' = [failures EXCEPT ![k] = NoFailure]
    /\ consec' = [consec EXCEPT ![k] = NoHistory]
    /\ lastExec' = [lastExec EXCEPT ![k] = Executed(k, "succeeded")]
    /\ UNCHANGED <<now, pending, priceVars, exitVars, riskVars, evalVars,
                   cycleVars, tradeVars>>

\* execute, the operation rejects: recordFailure(key), the error is rethrown
ExecuteFails(k) ==
    /\ ~isOpen(failures[k], now)
    /\ consec[k].all < MaxConsec
    /\ failures' = [failures EXCEPT ![k] =
                      recordFailure(afterIsOpen(failures[k], now), now)]
    /\ consec' = [consec EXCEPT ![k] =
                    [all |-> consec[k].all + 1,
                     run |-> IF CooledDown(failures[k], now)
                             THEN 1 ELSE consec[k].run + 1,
                     at |-> now]]
    /\ lastExec' = [lastExec EXCEPT ![k] = Executed(k, "failed")]
    /\ UNCHANGED <<now, pending, priceVars, exitVars, riskVars, evalVars,
                   cycleVars, tradeVars>>

\* no operation in flight; as history, whether the count of the key has
\* reached the threshold and when its latest failure was then recorded
NoPending == [n |-> 0, opened |-> FALSE, at |-> 0]

ConcurrentFrame == UNCHANGED <<now, consec, lastExec, priceVars, exitVars,
                               riskVars, evalVars, cycleVars, tradeVars>>

\* execute up to its await: isOpen lets the call through (deleting the entry
\* when the cool-down is over) and the operation is started
ExecuteStarts(k) ==
    /\ ~isOpen(failures[k], now)
    /\ pending[k].n < MaxInFlight
    /\ failures' = [failures EXCEPT ![k] = afterIsOpen(failures[k], now)]
    /\ pending' = [pending EXCEPT ![k].n = pending[k].n + 1]
    /\ ConcurrentFrame

\* an operation in flight resolves: reset(key)
OperationResolves(k) ==
    /\ pending[k].n > 0
    /\ failures' = [failures EXCEPT ![k] = NoFailure]
    /\ pending' = [pending EXCEPT ![k].n = pending[k].n - 1]
    /\ ConcurrentFrame

\* an operation in flight rejects: recordFailure(key)
OperationRejects(k) ==
    /\ pending[k].n > 0
    /\ LET failure == recordFailure(failures[k], now)
       IN /\ failures' = [failures EXCEPT ![k] = failure]
          /\ pending' = [pending EXCEPT ![k] =
                           IF failure.count >= FAILURE_THRESHOLD
                           THEN [n |-> pending[k].n - 1, opened |-> TRUE,
                                 at |-> now]
                           ELSE [pending[k] EXCEPT !.n = pending[k].n - 1]]
    /\ ConcurrentFrame

TickBreaker ==
    /\ \E t \in BreakerClock : t > now /\ now' = t
    /\ UNCHANGED <<priceVars, exitVars, restVars>>

InitBreaker ==
    /\ failures = [k \in Keys |-> NoFailure]
    /\ consec = [k \in Keys |-> NoHistory]
    /\ lastExec = [k \in Keys |-> NoExec]
    /\ pending = [k \in Keys |-> NoPending]

----------------------------------------------------------------------------
(* Risk scoring: TradeEvaluator, src/src/commands/evaluateTrade.ts *)

MAX_POSITION_SIZE == Fin(1, 1)
MIN_POSITION_SIZE == Fin(1, 10)
RISK_FREE_RATE == Fin(2, 100)
MILLION == Fin(1000000, 1)

\* the weights of calculateOverallRisk, in the order of Object.entries
RiskKeys == <<"volatility", "liquidityDepth", "marketCap",
              "priceFeedReliability", "slippageEstimate", "walletRisk">>

weights == [volatility |-> Fin(2, 10), liquidityDepth |-> Fin(2, 10),
            marketCap |-> Fin(1, 10), priceFeedReliability |-> Fin(2, 10),
            slippageEstimate |-> Fin(2, 10), walletRisk |-> Fin(1, 10)]

\* calculatePriceFeedReliability: sourceReliability * confidence
sourceReliability(source) ==
    IF source = "jupiter" THEN Fin(9, 10)
    ELSE IF source = "pyth" THEN Fin(95, 100)
    ELSE IF source = "switchboard" THEN Fin(85, 100)
    ELSE Fin(5, 10)

calculatePriceFeedReliability(priceFeed) ==
    JSMul(sourceReliability(priceFeed.source), priceFeed.confidence)

\* estimateSlippage: Math.min(1, tradeSize / liquidityDepth)
estimateSlippage(liquidityDepth, tradeSize) ==
    MathMin(One, JSQuot(tradeSize, liquidityDepth))

\* calculateWalletRisk
calculateWalletRisk(isScam) == IF isScam THEN Fin(1, 1) ELSE Fin(1, 10)

normalizedMetrics(metrics) ==
    [volatility |-> MathMin(One, metrics.volatility),
     liquidityDepth |-> MathMin(One, JSQuot(One, metrics.liquidityDepth)),
     marketCap |-> MathMin(One, JSQuot(One, JSQuot(metrics.marketCap,
                                                   MILLION))),
     priceFeedReliability |-> JSSub(One, metrics.priceFeedReliability),
     slippageEstimate |-> metrics.slippageEstimate,
     walletRisk |-> metrics.walletRisk]

RECURSIVE WeightedSum(_, _)
WeightedSum(norm, j) ==
    IF j = 0 THEN Zero
    ELSE JSAdd(WeightedSum(norm, j - 1),
               JSMul(norm[RiskKeys[j]], weights[RiskKeys[j]]))

\* calculateOverallRisk: the weighted sum of the normalized metrics
calculateOverallRisk(metrics) ==
    WeightedSum(normalizedMetrics(metrics), Len(RiskKeys))

\* calculatePositionSize without the minimum size
calculatePositionSizeNoFloor(score, riskMetrics) ==
    LET size0 == JSMul(MAX_POSITION_SIZE, score)
        size1 == JSMul(size0, JSSub(One, riskMetrics.volatility))
        size2 == JSMul(size1, MathMin(One, JSQuot(riskMetrics.liquidityDepth,
                                                  Fin(2, 1))))
    IN MathMin(MAX_POSITION_SIZE, size2)

\* calculatePositionSize
calculatePositionSize(score, riskMetrics) ==
    LET size0 == JSMul(MAX_POSITION_SIZE, score)
        size1 == JSMul(size0, JSSub(One, riskMetrics.volatility))
        size2 == JSMul(size1, MathMin(One, JSQuot(riskMetrics.liquidityDepth,
                                                  Fin(2, 1))))
    IN MathMax(MIN_POSITION_SIZE, MathMin(MAX_POSITION_SIZE, size2))

\* calculateExpectedReturn, calculateMaxDrawdown, calculateSharpeRatio
calculateExpectedReturn(score, riskMetrics) ==
    JSMul(JSMul(score, JSSub(One, riskMetrics.volatility)), Fin(100, 1))

calculateMaxDrawdown(riskMetrics) == JSMul(riskMetrics.volatility, Fin(200, 1))

calculateSharpeRatio(score, riskMetrics) ==
    JSQuot(JSSub(score, RISK_FREE_RATE), riskMetrics.volatility)

\* the functions applied to arguments of any finite, non-negative value
NoCalc == [score |-> Zero,
           metrics |-> [volatility |-> Zero, liquidityDepth |-> Zero,
                        marketCap |-> Zero, priceFeedReliability |-> Zero,
                        slippageEstimate |-> Zero, walletRisk |-> Zero],
           overallRisk |-> Null, suggestedSize |-> Null,
           sharpeRatio |-> Null]

CalculateOverallRisk ==
    /\ calc.overallRisk = Null
    /\ calc' = [calc EXCEPT !.overallRisk = calculateOverallRisk(calc.metrics)]
    /\ UNCHANGED <<now, priceVars, exitVars, breakerVars, evalVars, cycleVars,
                   tradeVars>>

CalculatePositionSize ==
    /\ calc.suggestedSize = Null
    /\ calc' = [calc EXCEPT !.suggestedSize =
                  calculatePositionSize(calc.score, calc.metrics)]
    /\ UNCHANGED <<now, priceVars, exitVars, breakerVars, evalVars, cycleVars,
                   tradeVars>>

CalculateSharpeRatio ==
    /\ calc.sharpeRatio = Null
    /\ calc' = [calc EXCEPT !.sharpeRatio =
                  calculateSharpeRatio(calc.score, calc.metrics)]
    /\ UNCHANGED <<now, priceVars, exitVars, breakerVars, evalVars, cycleVars,
                   tradeVars>>

InitNoCalc == calc = NoCalc

----------------------------------------------------------------------------
(* TradeEvaluator.evaluateTrade, src/src/commands/evaluateTrade.ts *)

EVAL_PRICE_CACHE_TTL == 60000
DEFAULT_CONFIDENCE_THRESHOLD == Fin(67, 100)
DEFAULT_PYTH_CONFIDENCE == Fin(95, 100)

\* no entry in the evaluator's price cache
NoFeed == [price |-> Undefined, source |-> "none", timestamp |-> 0,
           confidence |-> Zero]

\* a detected token: supply is token.supply / 10^decimals
Token(m, units, scam) == [mint |-> m, supply |-> units, isScam |-> scam]

\* the configuration loaded at start-up (ConfigManager.loadConfig)
Config(minLiq) ==
    [confidenceThreshold |-> DEFAULT_CONFIDENCE_THRESHOLD,
     minLiquidityUSD |-> Fin(minLiq, 1)]

\* getMarketData: the price of getTokenPrice, every other field 0
MarketData(p) ==
    [price |-> Fin(p, 1), volume24h |-> Zero, liquidityUSD |-> Zero,
     priceChange24h |-> Zero]

NoMetrics == [volatility |-> Zero, liquidityDepth |-> Zero,
              marketCap |-> Zero, priceFeedReliability |-> Zero,
              slippageEstimate |-> Zero, walletRisk |-> Zero,
              overallRisk |-> Null]

NoTradeSignal == [action |-> "none", confidence |-> Zero, price |-> Zero,
                  suggestedSize |-> Null, riskMetrics |-> NoMetrics,
                  expectedReturn |-> Null, maxDrawdown |-> Null,
                  sharpeRatio |-> Null]

\* the evaluator (model loaded or not, configuration) and its invocation:
\* where it stands, its argument, what it has fetched, and how it ended
IdleEvaluation(cfg) ==
    [pc |-> "idle", model |-> FALSE, cfg |-> cfg,
     token |-> Token("mintA", 0, FALSE), marketData |-> MarketData(0),
     score |-> Zero, priceFeed |-> NoFeed, riskMetrics |-> NoMetrics,
     outcome |-> "none", failedAt |-> "none", signal |-> NoTradeSignal,
     count |-> 0]

\* getPriceFeedData lines 244-247
EvalFresh(cached, t) ==
    cached # NoFeed /\ t - cached.timestamp < EVAL_PRICE_CACHE_TTL

\* calculateRiskMetrics lines 181-206, after getPriceFeedData has resolved
RiskMetrics(token, marketData, priceFeedData) ==
    LET volatility == JSQuot(MathAbs(marketData.priceChange24h), Fin(100, 1))
        liquidityDepth == JSQuot(marketData.liquidityUSD,
                                 OrElse(marketData.volume24h, One))
        marketCap == JSMul(marketData.price, Fin(token.supply, 1))
        m == [volatility |-> volatility,
              liquidityDepth |-> liquidityDepth,
              marketCap |-> marketCap,
              priceFeedReliability |->
                  calculatePriceFeedReliability(priceFeedData),
              slippageEstimate |->
                  estimateSlippage(liquidityDepth, MAX_POSITION_SIZE),
              walletRisk |-> calculateWalletRisk(token.isScam)]
    IN [volatility |-> m.volatility,
        liquidityDepth |-> m.liquidityDepth,
        marketCap |-> m.marketCap,
        priceFeedReliability |-> m.priceFeedReliability,
        slippageEstimate |-> m.slippageEstimate,
        walletRisk |-> m.walletRisk,
        overallRisk |-> calculateOverallRisk(m)]

\* the gate with a strict comparison of the score
MeetsCriteriaStrict(score, marketData, cfg) ==
    /\ JSLt(cfg.confidenceThreshold, score)
    /\ JSLeq(cfg.minLiquidityUSD, marketData.liquidityUSD)

\* evaluateTrade line 99
MeetsCriteria(score, marketData, cfg) ==
    /\ JSLeq(cfg.confidenceThreshold, score)
    /\ JSLeq(cfg.minLiquidityUSD, marketData.liquidityUSD)

\* evaluateTrade lines 100-116
TradeSignal(score, marketData, riskMetrics) ==
    [action |-> "BUY", confidence |-> score, price |-> marketData.price,
     suggestedSize |-> calculatePositionSize(score, riskMetrics),
     riskMetrics |-> riskMetrics,
     expectedReturn |-> calculateExpectedReturn(score, riskMetrics),
     maxDrawdown |-> calculateMaxDrawdown(riskMetrics),
     sharpeRatio |-> calculateSharpeRatio(score, riskMetrics)]

EvalFrame == UNCHANGED <<now, priceVars, exitVars, breakerVars, riskVars,
                         cycleVars, tradeVars>>

\* evaluateTrade throws at a stage: the catch block logs and rethrows
EvalThrows(stage) ==
    /\ evaluation' = [evaluation EXCEPT !.pc = "threw", !.outcome = "error",
                                        !.failedAt = stage]
    /\ UNCHANGED evalCache
    /\ EvalFrame

\* evaluateTrade is called; the model is loaded on the first call
EvaluateTrade(token) ==
    /\ evaluation.pc \in {"idle", "returned", "threw"}
    /\ evaluation.count < MaxEvaluations
    /\ evaluation' = [IdleEvaluation(evaluation.cfg) EXCEPT
                         !.pc = "marketData", !.model = TRUE,
                         !.token = token, !.count = evaluation.count + 1]
    /\ UNCHANGED evalCache
    /\ EvalFrame

\* initializeModel rejects
InitializeModelFails(token) ==
    /\ evaluation.pc \in {"idle", "returned", "threw"}
    /\ evaluation.count < MaxEvaluations
    /\ ~evaluation.model
    /\ evaluation' = [IdleEvaluation(evaluation.cfg) EXCEPT
                         !.pc = "threw", !.outcome = "error",
                         !.failedAt = "model", !.token = token,
                         !.count = evaluation.count + 1]
    /\ UNCHANGED evalCache
    /\ EvalFrame

GetMarketData ==
    /\ evaluation.pc = "marketData"
    /\ \E p \in PriceVals :
         evaluation' = [evaluation EXCEPT !.pc = "inference",
                                          !.marketData = MarketData(p)]
    /\ UNCHANGED evalCache
    /\ EvalFrame

GetMarketDataFails ==
    /\ evaluation.pc = "marketData"
    /\ EvalThrows("marketData")

RunModelInference ==
    /\ evaluation.pc = "inference"
    /\ \E sc \in Scores :
         evaluation' = [evaluation EXCEPT !.pc = "riskMetrics",
                                          !.score = Fin(sc[1], sc[2])]
    /\ UNCHANGED evalCache
    /\ EvalFrame

RunModelInferenceFails ==
    /\ evaluation.pc = "inference"
    /\ EvalThrows("inference")

\* the rest of evaluateTrade once getPriceFeedData has resolved with data
Decide(data) ==
    LET metrics == RiskMetrics(evaluation.token, evaluation.marketData, data)
        emit == MeetsCriteria(evaluation.score, evaluation.marketData,
                              evaluation.cfg)
    IN evaluation' =
         [evaluation EXCEPT
            !.pc = "returned", !.priceFeed = data, !.riskMetrics = metrics,
            !.outcome = IF emit THEN "signal" ELSE "null",
            !.signal = IF emit
                       THEN TradeSignal(evaluation.score,
                                        evaluation.marketData, metrics)
                       ELSE NoTradeSignal]

\* getPriceFeedData serves the cached entry
RiskFromCache ==
    /\ evaluation.pc = "riskMetrics"
    /\ EvalFresh(evalCache[evaluation.token.mint], now)
    /\ Decide(evalCache[evaluation.token.mint])
    /\ UNCHANGED evalCache
    /\ EvalFrame

\* getPriceFeedData: getTokenPrice resolves
RiskFromTokenPrice ==
    /\ evaluation.pc = "riskMetrics"
    /\ ~EvalFresh(evalCache[evaluation.token.mint], now)
    /\ \E p \in PriceVals :
         LET data == PriceFeedData(Num(p), "jupiter", now, Fin(9, 10)) IN
         /\ evalCache' = [evalCache EXCEPT ![evaluation.token.mint] = data]
         /\ Decide(data)
    /\ EvalFrame

\* getPriceFeedData: getTokenPrice rejects, PythProvider returns data
RiskFromPyth ==
    /\ evaluation.pc = "riskMetrics"
    /\ ~EvalFresh(evalCache[evaluation.token.mint], now)
    /\ \E v \in JSPrices, cf \in PythConfidences :
         LET data == PriceFeedData(v, "pyth", now,
                                   OrElse(Fin(cf[1], cf[2]),
                                          DEFAULT_PYTH_CONFIDENCE)) IN
         /\ evalCache' = [evalCache EXCEPT ![evaluation.token.mint] = data]
         /\ Decide(data)
    /\ EvalFrame

\* getPriceFeedData: every feed failed, it throws; calculateRiskMetrics
\* logs and rethrows
RiskMetricsFails ==
    /\ evaluation.pc = "riskMetrics"
    /\ ~EvalFresh(evalCache[evaluation.token.mint], now)
    /\ EvalThrows("riskMetrics")

InitNoEvaluation ==
    /\ evalCache = [m \in Mints |-> NoFeed]
    /\ evaluation = IdleEvaluation(Config(10000))

----------------------------------------------------------------------------
(* Orchestration cycle: SolanaMemecoinBot.tradingLoop (src/src/index.ts) and
   TradingBot.runTradingLoop (src/src/jobs.ts) *)

\* the lists detectNewTokens can return
Detections ==
    UNION {{[j \in 1..Cardinality(S) |-> o[j]] : o \in Orders(S)} :
           S \in SUBSET Mints}

\* the wait between two cycles: the setTimeout at the end of the try block
\* of tradingLoop, the setInterval period of startTradingBot
CYCLE_WAIT_MS == 5 * 60 * 1000

\* the cycle under way, and as history when it and the cycle before it
\* started, when the cycle before it ended and how, and whether the cycle
\* called exitEngine.checkAndExecuteExits
IdleCycle(kind) ==
    [kind |-> kind, pc |-> "idle", tokens |-> <<>>, i |-> 1,
     processed |-> <<>>, result |-> "none", count |-> 0,
     startedAt |-> 0, endedAt |-> 0, prevStartedAt |-> 0,
     prevResult |-> "none", exitsChecked |-> FALSE]

\* the next cycle may start.  tradingLoop: at once when it is started and
\* after a cycle that threw (the wait is inside the try block), after the
\* wait when the cycle ran through.  startTradingBot: on the ticks of
\* setInterval, the first one a period after the start
CycleMayStart ==
    /\ cycle.pc \in {"idle", "done"}
    /\ cycle.count < MaxCycles
    /\ IF cycle.kind = "tradingLoop"
       THEN \/ cycle.pc = "idle"
            \/ cycle.result # "completed"
            \/ now >= cycle.endedAt + CYCLE_WAIT_MS
       ELSE now >= cycle.startedAt + CYCLE_WAIT_MS

StartCycle(tokens, pc, result) ==
    [cycle EXCEPT !.pc = pc, !.tokens = tokens, !.i = 1,
                  !.processed = <<>>, !.result = result,
                  !.count = cycle.count + 1,
                  !.startedAt = now,
                  !.endedAt = IF pc = "done" THEN now ELSE cycle.endedAt,
                  !.prevStartedAt = cycle.startedAt,
                  !.prevResult = cycle.result,
                  !.exitsChecked = FALSE]

CycleFrame == UNCHANGED <<now, priceVars, exitVars, breakerVars, riskVars,
                          evalVars, tradeVars>>

\* a cycle starts: detectNewTokens resolves with the candidates
DetectNewTokens ==
    /\ CycleMayStart
    /\ \E tokens \in Detections : cycle' = StartCycle(tokens, "loop", "none")
    /\ CycleFrame

\* detectNewTokens rejects: the cycle's catch block takes it (tradingLoop
\* logs and goes round, runTradingLoop logs and rethrows)
DetectNewTokensFails ==
    /\ CycleMayStart
    /\ cycle' = StartCycle(<<>>, "done", "detectionFailed")
    /\ CycleFrame

\* the loop body runs through for the next token: evaluateTrade returns a
\* signal (then validated and executed) or null
ProcessToken ==
    /\ cycle.pc = "loop"
    /\ cycle.i <= Len(cycle.tokens)
    /\ \E outcome \in {"signal", "null"} :
         cycle' = [cycle EXCEPT
                     !.processed = Append(@, [token |-> cycle.tokens[cycle.i],
                                              outcome |-> outcome]),
                     !.i = cycle.i + 1]
    /\ CycleFrame

\* evaluateTrade rejects for the next token.  runTradingLoop catches inside
\* the loop body and takes the next token; the for loop of tradingLoop has no
\* handler, the error leaves the loop for the catch block of the cycle
ProcessTokenThrows ==
    /\ cycle.pc = "loop"
    /\ cycle.i <= Len(cycle.tokens)
    /\ LET failed == Append(cycle.processed,
                            [token |-> cycle.tokens[cycle.i],
                             outcome |-> "error"])
       IN cycle' = IF cycle.kind = "runTradingLoop"
                   THEN [cycle EXCEPT !.processed = failed,
                                      !.i = cycle.i + 1]
                   ELSE [cycle EXCEPT !.processed = failed,
                                      !.pc = "done", !.result = "aborted",
                                      !.endedAt = now]
    /\ CycleFrame

\* the loop is through; what follows it (pnlMonitor.monitor and the wait,
\* or checkAndExecuteExits) ends the cycle
CycleDone ==
    /\ cycle.pc = "loop"
    /\ cycle.i > Len(cycle.tokens)
    /\ cycle' = [cycle EXCEPT !.pc = "done", !.result = "completed",
                              !.endedAt = now,
                              !.exitsChecked = cycle.kind = "runTradingLoop"]
    /\ CycleFrame

\* the loop is through and what follows it rejects (pnlMonitor.monitor, or
\* checkAndExecuteExits): the catch block of the cycle logs
AfterLoopFails ==
    /\ cycle.pc = "loop"
    /\ cycle.i > Len(cycle.tokens)
    /\ cycle' = [cycle EXCEPT !.pc = "done", !.result = "afterLoopFailed",
                              !.endedAt = now,
                              !.exitsChecked = cycle.kind = "runTradingLoop"]
    /\ CycleFrame

TickCycle ==
    /\ \E t \in CycleClock : t > now /\ now' = t
    /\ UNCHANGED <<priceVars, exitVars, restVars>>

InitNoCycle == cycle = IdleCycle("tradingLoop")

----------------------------------------------------------------------------
(* TradingBot.processTradeSignal (src/src/commands/trading.ts) *)

\* config.getConfig(): the defaults, and thresholds set in the environment
DEFAULT_MAX_DRAWDOWN == Fin(1, 10)
DefaultTradingConfig ==
    [confidenceThreshold |-> DEFAULT_CONFIDENCE_THRESHOLD,
     maxDrawdown |-> DEFAULT_MAX_DRAWDOWN]
TradingConfigs ==
    {DefaultTradingConfig,
     [confidenceThreshold |-> Fin(1, 2), maxDrawdown |-> Fin(1, 5)]}

\* the signals of TradeEvaluator carry a finite confidence and overallRisk
Signals ==
    {[confidence |-> Fin(c[1], c[2]),
      riskMetrics |-> [overallRisk |-> Fin(r[1], r[2])]] :
        c \in SignalConfidences, r \in SignalRisks}

\* the validation at the head of the try block: which throw statement, if
\* any, is reached
SignalValidationNoRisk(signal, cfg) ==
    IF JSLt(signal.confidence, cfg.confidenceThreshold) THEN "confidence"
    ELSE "none"

SignalValidation(signal, cfg) ==
    IF JSLt(signal.confidence, cfg.confidenceThreshold) THEN "confidence"
    ELSE IF JSLt(cfg.maxDrawdown, signal.riskMetrics.overallRisk) THEN "risk"
    ELSE "none"

\* the invocation: its argument, the TradeResult it returned (error set or
\* not, and why), the rows of the trades table, the counters of the metrics
\* server, and the two as they were when the call started
IdleSignalRun(cfg) ==
    [pc |-> "idle", cfg |-> cfg,
     signal |-> [confidence |-> Zero, riskMetrics |-> [overallRisk |-> Zero]],
     error |-> FALSE, reason |-> "none", trades |-> 0,
     tradesRecorded |-> 0, errorsRecorded |-> 0, tradesBefore |-> 0,
     tradesRecordedBefore |-> 0, errorsBefore |-> 0, count |-> 0]

SignalFrame == UNCHANGED <<now, priceVars, exitVars, breakerVars, riskVars,
                           evalVars, cycleVars, execution, queue, utilVars>>

\* the catch block: log, recordError, return a result with the message
SignalCaught(run, reason) ==
    [run EXCEPT !.pc = "returned", !.error = TRUE, !.reason = reason,
                !.errorsRecorded = run.errorsRecorded + 1]

\* processTradeSignal(signal) up to its first await on the repository: the
\* validation throws into the catch block, or executeTrade (a placeholder
\* that returns a result without error) has run and logTrade is awaited
ProcessTradeSignal(signal) ==
    /\ signalRun.pc \in {"idle", "returned"}
    /\ signalRun.count < MaxSignals
    /\ LET run == [signalRun EXCEPT
                     !.signal = signal, !.error = FALSE, !.reason = "none",
                     !.count = signalRun.count + 1,
                     !.tradesBefore = signalRun.trades,
                     !.tradesRecordedBefore = signalRun.tradesRecorded,
                     !.errorsBefore = signalRun.errorsRecorded]
           thrown == SignalValidation(signal, signalRun.cfg)
       IN signalRun' = IF thrown # "none" THEN SignalCaught(run, thrown)
                       ELSE [run EXCEPT !.pc = "logTrade"]
    /\ SignalFrame

\* logTrade resolves: the row is written, recordTrade, the result is returned
LogTradeResolves ==
    /\ signalRun.pc = "logTrade"
    /\ signalRun' = [signalRun EXCEPT
                       !.pc = "returned",
                       !.trades = signalRun.trades + 1,
                       !.tradesRecorded = signalRun.tradesRecorded + 1]
    /\ SignalFrame

\* logTrade rejects: no row, the catch block
LogTradeRejects ==
    /\ signalRun.pc = "logTrade"
    /\ signalRun' = SignalCaught(signalRun, "logTrade")
    /\ SignalFrame

----------------------------------------------------------------------------
(* TradeExecutor.executeTrade (src/src/lib/tradeExecutor.ts) *)

MAX_RETRIES == 3
RETRY_DELAY == 1000

\* where the try block can throw, in order; the message of the error names
\* the stage
FailureStages == {"price", "quote", "slippage", "swap", "send", "save"}

\* the invocation: the locals retryCount and lastError, the ExecutionResult
\* returned, and as history the runs of the try block, the errors caught,
\* the delays awaited and the transactions sent and confirmed
\* (log: per run of the try block the quote it got, whether it requested a
\* swap transaction and how it ended; confirmed: the transactions confirmed
\* in this call)
IdleExecution ==
    [pc |-> "idle", retryCount |-> 0, lastError |-> "null",
     success |-> FALSE, error |-> "none", attempts |-> 0, failed |-> <<>>,
     delays |-> <<>>, sent |-> 0, count |-> 0, price |-> Zero,
     log |-> <<>>, confirmed |-> 0]

\* cfg.maxSlippageBps ? cfg.maxSlippageBps / 10000 : 0.015, with the
\* default of 150 basis points
MAX_SLIPPAGE == Fin(15, 1000)

\* Math.abs(actualPrice - expectedPrice) / expectedPrice with actualPrice =
\* quote.outAmount / quote.inAmount
Slippage(outAmount, inAmount, expectedPrice) ==
    LET actualPrice == JSQuot(Fin(outAmount, 1), Fin(inAmount, 1))
    IN JSQuot(MathAbs(JSSub(actualPrice, expectedPrice)), expectedPrice)

\* the slippage test against 100 percent
SlippageTooHighAboveOne(slippage) == JSLt(One, slippage)

\* if (slippage > this.MAX_SLIPPAGE) throw
SlippageTooHigh(slippage) == JSLt(MAX_SLIPPAGE, slippage)

\* a run of the try block that ended before the quote arrived
Unquoted(stage) ==
    [quoted |-> FALSE, outAmount |-> 0, inAmount |-> 0, swap |-> FALSE,
     outcome |-> stage]

\* a run of the try block that got a quote and then ended at stage
Quoted(q, stage) ==
    [quoted |-> TRUE, outAmount |-> q[1], inAmount |-> q[2],
     swap |-> stage # "slippage", outcome |-> stage]

\* the condition of the while loop
RetryAgainInclusive(retryCount) == retryCount <= MAX_RETRIES

RetryAgain(retryCount) == retryCount < MAX_RETRIES

\* lastError?.message || 'Unknown error'
ErrorMessage(lastError) ==
    IF lastError \in {"null", ""} THEN "Unknown error" ELSE lastError

ExecutionFrame == UNCHANGED <<now, priceVars, exitVars, breakerVars,
                              riskVars, evalVars, cycleVars, signalRun,
                              queue, utilVars>>

\* what follows the loop: return {success: false, error}
GiveUp(e) ==
    [e EXCEPT !.pc = "returned", !.success = FALSE,
              !.error = ErrorMessage(e.lastError)]

\* executeTrade(signal, wallet) is called
ExecuteTrade ==
    /\ execution.pc \in {"idle", "returned"}
    /\ execution.count < MaxExecutions
    /\ \E p \in SignalPrices :
         LET e == [IdleExecution EXCEPT !.count = execution.count + 1,
                                        !.sent = execution.sent,
                                        !.price = Fin(p, 1)]
         IN execution' = IF RetryAgain(e.retryCount)
                         THEN [e EXCEPT !.pc = "attempt"]
                         ELSE GiveUp(e)
    /\ ExecutionFrame

\* the try block runs to its return statement: the quote passes the
\* slippage test, the swap is requested, sent and confirmed, the result saved
AttemptSucceeds ==
    /\ execution.pc = "attempt"
    /\ \E q \in JupiterQuotes :
         /\ ~SlippageTooHigh(Slippage(q[1], q[2], execution.price))
         /\ execution' = [execution EXCEPT
                            !.pc = "returned", !.success = TRUE,
                            !.attempts = execution.attempts + 1,
                            !.sent = execution.sent + 1,
                            !.confirmed = execution.confirmed + 1,
                            !.log = Append(execution.log, Quoted(q, "ok"))]
    /\ ExecutionFrame

\* the catch block, the delay, and the test of the loop
Caught(entry) ==
    LET retryCount == execution.retryCount + 1
        stage == entry.outcome
        e == [execution EXCEPT
                !.lastError = stage,
                !.retryCount = retryCount,
                !.attempts = execution.attempts + 1,
                !.failed = Append(execution.failed, stage),
                !.log = Append(execution.log, entry),
                !.sent = IF stage = "save" THEN execution.sent + 1
                         ELSE execution.sent,
                !.confirmed = IF stage = "save"
                              THEN execution.confirmed + 1
                              ELSE execution.confirmed,
                !.delays = IF retryCount < MAX_RETRIES
                           THEN Append(execution.delays,
                                       RETRY_DELAY * retryCount)
                           ELSE execution.delays]
    IN IF RetryAgain(retryCount) THEN e ELSE GiveUp(e)

\* the try block throws at a stage: getPriceData or the quote request
\* rejects; the slippage test throws; or, the test passed, the swap request,
\* sendAndConfirmTransaction or saveTradeResult rejects
AttemptFails(stage) ==
    /\ execution.pc = "attempt"
    /\ IF stage \in {"price", "quote"}
       THEN execution' = Caught(Unquoted(stage))
       ELSE \E q \in JupiterQuotes :
              /\ (stage = "slippage")
                   = SlippageTooHigh(Slippage(q[1], q[2], execution.price))
              /\ execution' = Caught(Quoted(q, stage))
    /\ ExecutionFrame

----------------------------------------------------------------------------
(* RetryQueue (src/unnamed/part_014) *)

DEFAULT_MAX_ATTEMPTS == 5
DEFAULT_BASE_DELAY_MS == 500
DEFAULT_MAX_DELAY_MS == 10000

\* the options of enqueue after the ?? defaults: none given, and a job
\* allowed two attempts
JobOptions ==
    {[maxAttempts |-> DEFAULT_MAX_ATTEMPTS,
      baseDelay |-> DEFAULT_BASE_DELAY_MS,
      maxDelay |-> DEFAULT_MAX_DELAY_MS],
     [maxAttempts |-> 2, baseDelay |-> 6000,
      maxDelay |-> DEFAULT_MAX_DELAY_MS]}

RECURSIVE Pow2(_)
Pow2(n) == IF n = 0 THEN 1 ELSE 2 * Pow2(n - 1)

\* Math.min(baseDelay * Math.pow(2, attempts), maxDelay)
RetryDelay(entry) ==
    LET d == entry.baseDelay * Pow2(entry.attempts)
    IN IF d < entry.maxDelay THEN d ELSE entry.maxDelay

\* the Map this.queue in insertion order, the pass of processQueue over it
\* (where its iterator stands), and as history the delays it awaited and
\* the number of enqueue calls
IdleQueue ==
    [entries |-> <<>>, pc |-> "idle", pos |-> 1, delays |-> <<>>,
     enqueues |-> 0]

\* Map.set: an existing key keeps its place
MapSet(entries, e) ==
    IF \E j \in DOMAIN entries : entries[j].key = e.key
    THEN [j \in DOMAIN entries |->
            IF entries[j].key = e.key THEN e ELSE entries[j]]
    ELSE Append(entries, e)

\* Map.delete of the entry the iterator stands on
MapDelete(entries, pos) ==
    [j \in 1..(Len(entries) - 1) |->
       IF j < pos THEN entries[j] ELSE entries[j + 1]]

QueueFrame == UNCHANGED <<now, priceVars, exitVars, breakerVars, riskVars,
                          evalVars, cycleVars, signalRun, execution,
                          utilVars>>

\* enqueue(key, job, options): the entry is set with attempts 0 and a pass of
\* processQueue starts
Enqueue(key, options) ==
    /\ queue.pc = "idle"
    /\ queue.enqueues < MaxEnqueues
    /\ queue' = [queue EXCEPT
                   !.entries = MapSet(queue.entries,
                                      [key |-> key, attempts |-> 0,
                                       maxAttempts |-> options.maxAttempts,
                                       baseDelay |-> options.baseDelay,
                                       maxDelay |-> options.maxDelay]),
                   !.pc = "processQueue", !.pos = 1, !.delays = <<>>,
                   !.enqueues = queue.enqueues + 1]
    /\ QueueFrame

\* processQueue: the entry has used up its attempts and is dropped
DropExhausted ==
    /\ queue.pc = "processQueue"
    /\ queue.pos <= Len(queue.entries)
    /\ queue.entries[queue.pos].attempts
         >= queue.entries[queue.pos].maxAttempts
    /\ queue' = [queue EXCEPT
                   !.entries = MapDelete(queue.entries, queue.pos)]
    /\ QueueFrame

\* processQueue: the job resolves and its entry is deleted
JobSucceeds ==
    /\ queue.pc = "processQueue"
    /\ queue.pos <= Len(queue.entries)
    /\ queue.entries[queue.pos].attempts
         < queue.entries[queue.pos].maxAttempts
    /\ queue' = [queue EXCEPT
                   !.entries = MapDelete(queue.entries, queue.pos)]
    /\ QueueFrame

\* processQueue: the job rejects; the entry is set again with one attempt
\* more, the delay is awaited, and the iterator moves to the next entry
JobFails ==
    /\ queue.pc = "processQueue"
    /\ queue.pos <= Len(queue.entries)
    /\ queue.entries[queue.pos].attempts
         < queue.entries[queue.pos].maxAttempts
    /\ LET entry == queue.entries[queue.pos]
       IN queue' = [queue EXCEPT
                      !.entries = MapSet(queue.entries,
                                         [entry EXCEPT
                                            !.attempts = entry.attempts + 1]),
                      !.delays = Append(queue.delays, RetryDelay(entry)),
                      !.pos = queue.pos + 1]
    /\ QueueFrame

\* the iterator is through: processQueue and enqueue return
ProcessQueueReturns ==
    /\ queue.pc = "processQueue"
    /\ queue.pos > Len(queue.entries)
    /\ queue' = [queue EXCEPT !.pc = "idle"]
    /\ QueueFrame

\* the shared RetryQueue with enqueue calls that overlap: the Map in
\* insertion order; per caller its pass of processQueue (pc, the index its
\* Map iterator yields next, the entry it destructured); and as history per
\* job (numbered by the enqueue call that passed it) its runs under way and
\* its runs that resolved
IdlePass == [pc |-> "idle", pos |-> 1, key |-> "none", job |-> 0,
             attempts |-> 0, maxAttempts |-> 0, baseDelay |-> 0,
             maxDelay |-> 0]

IdleShared ==
    [entries |-> <<>>, pass |-> [p \in Passes |-> IdlePass],
     running |-> [j \in 1..MaxOverlapping |-> 0],
     resolved |-> [j \in 1..MaxOverlapping |-> 0], enqueues |-> 0]

\* the index of key in the Map, 0 when it is not there
MapIndex(entries, key) ==
    IF \E j \in DOMAIN entries : entries[j].key = key
    THEN CHOOSE j \in DOMAIN entries : entries[j].key = key
    ELSE 0

\* Map.delete(key) under live iterators: an iterator past the deleted entry
\* moves back with the entries behind it
MapDeleteKey(s, key) ==
    LET j == MapIndex(s.entries, key)
    IN IF j = 0 THEN s
       ELSE [s EXCEPT
               !.entries = MapDelete(s.entries, j),
               !.pass = [p \in Passes |->
                           IF s.pass[p].pos > j
                           THEN [s.pass[p] EXCEPT !.pos = @ - 1]
                           ELSE s.pass[p]]]

SharedFrame == UNCHANGED <<now, priceVars, exitVars, breakerVars, riskVars,
                           evalVars, cycleVars, signalRun, execution, queue,
                           ttl, http>>

\* processQueue of caller p from the iterator's next() up to its next await
\* (no other caller runs in between): exhausted entries are deleted, the job
\* of the first entry with attempts left is started and awaited; when the
\* iterator is through, the pass and its enqueue call return
RECURSIVE RunPass(_, _)
RunPass(s, p) ==
    IF s.pass[p].pos > Len(s.entries)
    THEN [s EXCEPT !.pass[p] = IdlePass]
    ELSE LET entry == s.entries[s.pass[p].pos]
             yielded == [s EXCEPT !.pass[p].pos = @ + 1]
         IN IF entry.attempts >= entry.maxAttempts
            THEN RunPass(MapDeleteKey(yielded, entry.key), p)
            ELSE [yielded EXCEPT
                    !.pass[p] = [pc |-> "job",
                                 pos |-> yielded.pass[p].pos,
                                 key |-> entry.key, job |-> entry.job,
                                 attempts |-> entry.attempts,
                                 maxAttempts |-> entry.maxAttempts,
                                 baseDelay |-> entry.baseDelay,
                                 maxDelay |-> entry.maxDelay],
                    !.running[entry.job] = @ + 1]

\* enqueue(key, job, options) by a caller whose earlier call has returned:
\* the entry is set with attempts 0 and the caller's pass of processQueue
\* starts at the head of the Map, whatever the other passes are awaiting
EnqueueShared(p, key, options) ==
    /\ shared.pass[p].pc = "idle"
    /\ shared.enqueues < MaxOverlapping
    /\ shared' = RunPass([shared EXCEPT
                            !.entries =
                               MapSet(shared.entries,
                                      [key |-> key,
                                       job |-> shared.enqueues + 1,
                                       attempts |-> 0,
                                       maxAttempts |-> options.maxAttempts,
                                       baseDelay |-> options.baseDelay,
                                       maxDelay |-> options.maxDelay]),
                            !.pass[p] = [IdlePass EXCEPT !.pc = "next"],
                            !.enqueues = shared.enqueues + 1], p)
    /\ SharedFrame

\* the awaited job resolves: the key is deleted and the pass goes on
PassJobResolves(p) ==
    /\ shared.pass[p].pc = "job"
    /\ LET cur == shared.pass[p]
       IN shared' = RunPass(MapDeleteKey([shared EXCEPT
                                            !.pass[p].pc = "next",
                                            !.running[cur.job] = @ - 1,
                                            !.resolved[cur.job] = @ + 1],
                                         cur.key), p)
    /\ SharedFrame

\* the awaited job rejects: the key is set with the destructured attempts
\* plus one (at the end of the Map when the key was deleted meanwhile), and
\* the delay is awaited
PassJobRejects(p) ==
    /\ shared.pass[p].pc = "job"
    /\ LET cur == shared.pass[p]
       IN shared' = [shared EXCEPT
                       !.entries = MapSet(shared.entries,
                                          [key |-> cur.key, job |-> cur.job,
                                           attempts |-> cur.attempts + 1,
                                           maxAttempts |-> cur.maxAttempts,
                                           baseDelay |-> cur.baseDelay,
                                           maxDelay |-> cur.maxDelay]),
                       !.pass[p].pc = "delay",
                       !.running[cur.job] = @ - 1]
    /\ SharedFrame

\* the delay is over: the pass goes on
PassDelayOver(p) ==
    /\ shared.pass[p].pc = "delay"
    /\ shared' = RunPass([shared EXCEPT !.pass[p].pc = "next"], p)
    /\ SharedFrame

----------------------------------------------------------------------------
(* TTLCache (src/src/lib/cache.ts) *)

NoCacheEntry == [present |-> FALSE, value |-> "", timestamp |-> 0]
\* what get returns: undefined, or the value of the entry
Miss == [defined |-> FALSE, value |-> ""]
Hit(v) == [defined |-> TRUE, value |-> v]

\* the Map of a new TTLCache, and no operation yet
EmptyCache ==
    [map |-> [k \in CacheKeys |-> NoCacheEntry],
     last |-> [op |-> "none", key |-> "", at |-> 0, before |-> NoCacheEntry,
               result |-> Miss]]

\* the test of get with >= in place of >
ExpiredAtTtl(entry, t) == t - entry.timestamp >= TtlMs

\* Date.now() - entry.timestamp > this.ttl
Expired(entry, t) == t - entry.timestamp > TtlMs

\* set(key, value): this.cache.set(key, {value, timestamp: Date.now()})
TTLSet(map, key, value, t) ==
    [map EXCEPT ![key] = [present |-> TRUE, value |-> value,
                          timestamp |-> t]]

\* get(key): the Map after it and the value returned
TTLGet(map, key, t) ==
    IF ~map[key].present
    THEN [map |-> map, result |-> Miss]
    ELSE IF Expired(map[key], t)
         THEN [map |-> [map EXCEPT ![key] = NoCacheEntry],
               result |-> Miss]
         ELSE [map |-> map, result |-> Hit(map[key].value)]

CacheFrame == UNCHANGED <<now, priceVars, exitVars, breakerVars, riskVars,
                          evalVars, cycleVars, signalRun, execution, queue,
                          shared, http>>

LastOp(op, key, result) ==
    [op |-> op, key |-> key, at |-> now,
     before |-> IF key \in CacheKeys THEN ttl.map[key] ELSE NoCacheEntry,
     result |-> result]

CacheSet(key, value) ==
    /\ ttl' = [map |-> TTLSet(ttl.map, key, value, now),
               last |-> LastOp("set", key, Miss)]
    /\ CacheFrame

CacheGet(key) ==
    /\ LET got == TTLGet(ttl.map, key, now)
       IN ttl' = [map |-> got.map, last |-> LastOp("get", key, got.result)]
    /\ CacheFrame

\* has(key): this.get(key) !== undefined
CacheHas(key) ==
    /\ LET got == TTLGet(ttl.map, key, now)
       IN ttl' = [map |-> got.map,
                  last |-> LastOp("has", key,
                                  [defined |-> TRUE,
                                   value |-> IF got.result.defined
                                             THEN "true" ELSE "false"])]
    /\ CacheFrame

CacheDelete(key) ==
    /\ ttl' = [map |-> [ttl.map EXCEPT ![key] = NoCacheEntry],
               last |-> LastOp("delete", key, Miss)]
    /\ CacheFrame

CacheClear ==
    /\ ttl' = [map |-> EmptyCache.map, last |-> LastOp("clear", "", Miss)]
    /\ CacheFrame

\* time passes; nothing of the cache runs
TickCache ==
    /\ \E t \in CacheClock : t > now /\ now' = t
    /\ UNCHANGED <<priceVars, exitVars, restVars>>

----------------------------------------------------------------------------
(* RateLimitedHttpClient (src/src/lib/httpClient.ts) *)

HTTP_MAX_RETRIES == 5
HTTP_BASE_DELAY_MS == 500
HTTP_MAX_DELAY_MS == 10000

\* the options after the ?? defaults: none given, no retries, and two
\* retries with a long base delay; each with and without a cache
HttpOptions ==
    {[maxRetries |-> r[1], baseDelay |-> r[2],
      maxDelay |-> HTTP_MAX_DELAY_MS, cache |-> c] :
        r \in {<<HTTP_MAX_RETRIES, HTTP_BASE_DELAY_MS>>,
               <<0, HTTP_BASE_DELAY_MS>>, <<2, 6000>>},
        c \in BOOLEAN}

\* the client with its options and the request call: where it stands, its
\* cacheKey ("" when none is passed), attempt and lastError, what it
\* returned or threw; as history the axios requests it issued, the errors it
\* retried after, the delays it awaited, its cache.set calls, and whether
\* the cache held a fresh entry for the key when it was called
IdleHttp(options) ==
    [options |-> options, pc |-> "idle", cacheKey |-> "", attempt |-> 0,
     lastError |-> "", result |-> [kind |-> "none", value |-> ""],
     requests |-> 0, retried |-> {}, delays |-> <<>>, cacheSets |-> 0,
     fresh |-> FALSE, count |-> 0]

\* the test of the catch block without its conditions
RetryableAny(error) == TRUE

\* status === 429 || error.code === 'ECONNABORTED' || error.code ===
\* 'ENOTFOUND'
Retryable(error) == error \in {"429", "ECONNABORTED", "ENOTFOUND"}

\* Math.min(this.baseDelay * Math.pow(2, attempt), this.maxDelay)
HttpDelay(options, attempt) ==
    LET d == options.baseDelay * Pow2(attempt)
    IN IF d < options.maxDelay THEN d ELSE options.maxDelay

UsesCache(h) == h.options.cache /\ h.cacheKey # ""

HttpFrame == UNCHANGED <<now, priceVars, exitVars, breakerVars, riskVars,
                         evalVars, cycleVars, signalRun, execution, queue,
                         shared>>

\* the while loop up to its await: the next axios.request is issued, or the
\* loop is over and lastError is thrown
IssueOrThrow(h) ==
    IF h.attempt <= h.options.maxRetries
    THEN [h EXCEPT !.pc = "await", !.requests = h.requests + 1]
    ELSE [h EXCEPT !.pc = "thrown",
                   !.result = [kind |-> "throw", value |-> h.lastError]]

\* request(config, cacheKey): a cached response is returned, or the loop
\* starts
Request(cacheKey) ==
    /\ http.pc \in {"idle", "returned", "thrown"}
    /\ http.count < MaxRequests
    /\ LET h == [IdleHttp(http.options) EXCEPT
                   !.cacheKey = cacheKey, !.count = http.count + 1]
           got == TTLGet(ttl.map, cacheKey, now)
       IN IF UsesCache(h)
          THEN /\ ttl' = [map |-> got.map,
                          last |-> LastOp("get", cacheKey, got.result)]
               /\ http' = IF got.result.defined
                          THEN [h EXCEPT
                                  !.pc = "returned", !.fresh = TRUE,
                                  !.result = [kind |-> "cached",
                                              value |-> got.result.value]]
                          ELSE IssueOrThrow(h)
          ELSE /\ ttl' = ttl
               /\ http' = IssueOrThrow(h)
    /\ HttpFrame

\* axios.request resolves: the response is cached and returned
ResponseArrives(response) ==
    /\ http.pc = "await"
    /\ IF UsesCache(http)
       THEN ttl' = [map |-> TTLSet(ttl.map, http.cacheKey, response, now),
                    last |-> LastOp("set", http.cacheKey, Miss)]
       ELSE ttl' = ttl
    /\ http' = [http EXCEPT
                  !.pc = "returned",
                  !.result = [kind |-> "response", value |-> response],
                  !.cacheSets = IF UsesCache(http) THEN @ + 1 ELSE @]
    /\ HttpFrame

\* axios.request rejects: after a rate limit or network error the delay is
\* awaited and the loop goes round, any other error is rethrown
RequestFails(error) ==
    /\ http.pc = "await"
    /\ http' = IF Retryable(error)
               THEN IssueOrThrow([http EXCEPT
                                    !.lastError = error,
                                    !.retried = @ \cup {error},
                                    !.delays =
                                       Append(@, HttpDelay(http.options,
                                                           http.attempt)),
                                    !.attempt = @ + 1])
               ELSE [http EXCEPT
                       !.lastError = error, !.pc = "thrown",
                       !.result = [kind |-> "throw", value |-> error]]
    /\ ttl' = ttl
    /\ HttpFrame

InitNoTrading ==
    /\ signalRun = IdleSignalRun(DefaultTradingConfig)
    /\ execution = IdleExecution
    /\ queue = IdleQueue
    /\ shared = IdleShared
    /\ ttl = EmptyCache
    /\ http = IdleHttp(CHOOSE o \in HttpOptions :
                         o.maxRetries = HTTP_MAX_RETRIES /\ ~o.cache)

InitRest ==
    InitBreaker /\ InitNoCalc /\ InitNoEvaluation /\ InitNoCycle
    /\ InitNoTrading

----------------------------------------------------------------------------
(* Specifications *)

InitPrice ==
    /\ now = 0
    /\ priceCache = [m \in Mints |-> NoQuote]
    /\ birdeyeCache = [m \in Mints |-> NoEntry]
    /\ call = [c \in Callers |-> IdleCall]
    /\ writes = [m \in Mints |-> NoWrite]

InitBatch ==
    /\ exitPc = "idle"
    /\ openPositions = <<>>
    /\ idx = 1
    /\ exitSignal = NoSignal
    /\ evaluated = <<>>
    /\ updateCalls = <<>>
    /\ exits = [i \in PosIds |-> 0]
    /\ listFetch = "none"
    /\ batchResult = "none"
    /\ batches = 0

\* the exit engine with its own PriceFeedManager over a repository holding
\* open positions
InitExit ==
    /\ InitPrice
    /\ InitBatch
    /\ InitRest
    /\ \E m1, m2 \in Mints, e1, e2 \in EntryPrices, a1, a2 \in Amounts,
          t1, t2 \in EntryTimes :
         positions = [i \in PosIds |->
                        IF i = 1 THEN Row(i, m1, e1, a1, t1)
                                 ELSE Row(i, m2, e2, a2, t2)]

NextExit ==
    \/ FetchOpenPositions
    \/ FetchOpenPositionsFails
    \/ CheckPosition
    \/ CheckPositionThrows
    \/ ExecuteExit
    \/ ExecuteExitFails
    \/ LoopDone
    \/ TickExit

SpecExit == InitExit /\ [][NextExit]_vars

\* the exit engine and the P&L monitor over one repository
InitLifecycle ==
    /\ InitPrice
    /\ InitBatch
    /\ InitRest
    /\ \E m1, m2 \in Mints :
         positions = [i \in PosIds |->
                        Row(i, IF i = 1 THEN m1 ELSE m2, 20, 1, 0)]

NextLifecycle ==
    \/ NextExit
    \/ Monitor

SpecLifecycle == InitLifecycle /\ [][NextLifecycle]_vars

\* one PriceFeedManager used by concurrent callers
InitStore ==
    /\ InitPrice
    /\ InitBatch
    /\ positions = [i \in PosIds |-> Row(i, "mintA", 20, 1, 0)]

InitPriceFeed == InitStore /\ InitRest

NextPrice ==
    \/ \E c \in PriceCallers, m \in Mints : GetPriceData(c, m)
    \/ \E c \in PriceCallers : ProviderStep(c)
    \/ clearCache
    \/ TickPrice

SpecPrice == InitPriceFeed /\ [][NextPrice]_vars

\* two callers of one PriceFeedManager asking for the same mint
NextConcurrent ==
    \/ \E c \in Callers : GetPriceData(c, "mintA")
    \/ \E c \in Callers : ProviderStep(c)
    \/ clearCache
    \/ TickPrice

SpecConcurrent == InitPriceFeed /\ [][NextConcurrent]_vars

\* the circuit breaker under a client that calls execute for each key
InitBreakerSpec ==
    InitStore /\ InitNoTrading /\ InitBreaker /\ InitNoCalc /\ InitNoEvaluation /\ InitNoCycle

NextBreaker ==
    \/ \E k \in Keys : ExecuteRejected(k)
    \/ \E k \in Keys : ExecuteSucceeds(k)
    \/ \E k \in Keys : ExecuteFails(k)
    \/ TickBreaker

SpecBreaker == InitBreakerSpec /\ [][NextBreaker]_vars

\* the circuit breaker with several execute calls for one key in flight
NextBreakerConcurrent ==
    \/ ExecuteRejected("birdeye")
    \/ ExecuteStarts("birdeye")
    \/ OperationResolves("birdeye")
    \/ OperationRejects("birdeye")
    \/ TickBreaker

SpecBreakerConcurrent == InitBreakerSpec /\ [][NextBreakerConcurrent]_vars

\* the risk-scoring functions over finite, non-negative arguments
InitRisk ==
    /\ InitStore /\ InitNoTrading /\ InitBreaker /\ InitNoEvaluation /\ InitNoCycle
    /\ \E v \in Volatilities, d \in Depths, mc \in MarketCaps,
          r \in Reliabilities, sl \in Slippages, w \in WalletRisks,
          sc \in Scores :
         calc = [NoCalc EXCEPT
                   !.score = Fin(sc[1], sc[2]),
                   !.metrics = [volatility |-> Fin(v[1], v[2]),
                                liquidityDepth |-> Fin(d[1], d[2]),
                                marketCap |-> Fin(mc[1], mc[2]),
                                priceFeedReliability |-> Fin(r[1], r[2]),
                                slippageEstimate |-> Fin(sl[1], sl[2]),
                                walletRisk |-> Fin(w[1], w[2])]]

NextRisk ==
    \/ CalculateOverallRisk
    \/ CalculatePositionSize
    \/ CalculateSharpeRatio

SpecRisk == InitRisk /\ [][NextRisk]_vars

\* one TradeEvaluator under the configuration loaded at start-up
Tokens == {Token(m, u, sc) : m \in Mints, u \in Supplies, sc \in BOOLEAN}

InitEvaluate ==
    /\ InitStore /\ InitNoTrading /\ InitBreaker /\ InitNoCalc /\ InitNoCycle
    /\ evalCache = [m \in Mints |-> NoFeed]
    /\ \E minLiq \in MinLiquidities :
         evaluation = IdleEvaluation(Config(minLiq))

NextEvaluate ==
    \/ \E token \in Tokens : EvaluateTrade(token)
    \/ \E token \in Tokens : InitializeModelFails(token)
    \/ GetMarketData
    \/ GetMarketDataFails
    \/ RunModelInference
    \/ RunModelInferenceFails
    \/ RiskFromCache
    \/ RiskFromTokenPrice
    \/ RiskFromPyth
    \/ RiskMetricsFails
    \/ TickPrice

SpecEvaluate == InitEvaluate /\ [][NextEvaluate]_vars

\* the orchestration cycle of either entry point
InitCycle ==
    /\ InitStore /\ InitNoTrading /\ InitBreaker /\ InitNoCalc /\ InitNoEvaluation
    /\ \E kind \in {"tradingLoop", "runTradingLoop"} :
         cycle = IdleCycle(kind)

NextCycle ==
    \/ DetectNewTokens
    \/ DetectNewTokensFails
    \/ ProcessToken
    \/ ProcessTokenThrows
    \/ CycleDone
    \/ AfterLoopFails
    \/ TickCycle

SpecCycle == InitCycle /\ [][NextCycle]_vars

\* the shared RetryQueue under two callers whose enqueue calls overlap
NextShared ==
    \/ \E p \in Passes, key \in JobKeys, options \in JobOptions :
         EnqueueShared(p, key, options)
    \/ \E p \in Passes : PassJobResolves(p)
    \/ \E p \in Passes : PassJobRejects(p)
    \/ \E p \in Passes : PassDelayOver(p)

SpecShared == InitPriceFeed /\ [][NextShared]_vars

\* a TTLCache under a client that uses all its methods
NextCache ==
    \/ \E key \in CacheKeys, value \in CacheValues : CacheSet(key, value)
    \/ \E key \in CacheKeys : CacheGet(key)
    \/ \E key \in CacheKeys : CacheHas(key)
    \/ \E key \in CacheKeys : CacheDelete(key)
    \/ CacheClear
    \/ TickCache

SpecCache == InitPriceFeed /\ [][NextCache]_vars

\* one RateLimitedHttpClient under a caller that awaits each request; the
\* responses of axios.request arrive in the end
InitHttp ==
    /\ InitStore /\ InitBreaker /\ InitNoCalc /\ InitNoEvaluation
    /\ InitNoCycle
    /\ signalRun = IdleSignalRun(DefaultTradingConfig)
    /\ execution = IdleExecution
    /\ queue = IdleQueue
    /\ shared = IdleShared
    /\ ttl = EmptyCache
    /\ \E options \in HttpOptions : http = IdleHttp(options)

\* axios.request settles
Settles ==
    \/ \E response \in CacheValues : ResponseArrives(response)
    \/ \E error \in HttpErrors : RequestFails(error)

NextHttp ==
    \/ \E cacheKey \in {"", "u1"} : Request(cacheKey)
    \/ Settles
    \/ TickCache

SpecHttp == InitHttp /\ [][NextHttp]_vars /\ WF_vars(Settles)

InitSignal ==
    /\ InitStore /\ InitBreaker /\ InitNoCalc /\ InitNoEvaluation
    /\ InitNoCycle
    /\ \E cfg \in TradingConfigs : signalRun = IdleSignalRun(cfg)
    /\ execution = IdleExecution
    /\ queue = IdleQueue
    /\ shared = IdleShared
    /\ ttl = EmptyCache
    /\ http = IdleHttp(CHOOSE o \in HttpOptions :
                         o.maxRetries = HTTP_MAX_RETRIES /\ ~o.cache)

NextSignal ==
    \/ \E signal \in Signals : ProcessTradeSignal(signal)
    \/ LogTradeResolves
    \/ LogTradeRejects

SpecSignal == InitSignal /\ [][NextSignal]_vars

InitExecutor == InitPriceFeed

NextExecutor ==
    \/ ExecuteTrade
    \/ AttemptSucceeds
    \/ \E stage \in FailureStages : AttemptFails(stage)

SpecExecutor == InitExecutor /\ [][NextExecutor]_vars

InitQueue == InitPriceFeed

NextQueue ==
    \/ \E key \in JobKeys, options \in JobOptions : Enqueue(key, options)
    \/ DropExhausted
    \/ JobSucceeds
    \/ JobFails
    \/ ProcessQueueReturns

SpecQueue == InitQueue /\ [][NextQueue]_vars

----------------------------------------------------------------------------
(* Exit engine: properties *)

Decisions == {evaluated[j] : j \in 1..Len(evaluated)}

UpdatesOf(i) ==
    {k \in 1..Len(updateCalls) : updateCalls[k].position.id = i}

\* C1: the rules are applied in the order take-profit, stop-loss, holding
\* time: a decision whose currentPnL is at or above the take-profit threshold
\* while the holding time is at or above the maximum reports the take-profit
\* reason, and one whose currentPnL is at or below the stop-loss threshold
\* while the holding time is at or above the maximum reports the stop-loss
\* reason.
ExitPriorityOrder ==
    \A e \in Decisions :
      /\ (JSGe(e.signal.currentPnL, TAKE_PROFIT_THRESHOLD)
          /\ e.holdingTime >= MAX_HOLDING_TIME)
         => e.signal.reason = "Take profit triggered"
      /\ (JSLe(e.signal.currentPnL, STOP_LOSS_THRESHOLD)
          /\ e.holdingTime >= MAX_HOLDING_TIME)
         => e.signal.reason = "Stop loss triggered"

ExitPriorityWitness ==
    /\ \E e \in Decisions :
         /\ JSGe(e.signal.currentPnL, TAKE_PROFIT_THRESHOLD)
         /\ e.holdingTime >= MAX_HOLDING_TIME
         /\ e.signal.reason = "Take profit triggered"
    /\ \E e \in Decisions :
         /\ JSLe(e.signal.currentPnL, STOP_LOSS_THRESHOLD)
         /\ e.holdingTime >= MAX_HOLDING_TIME
         /\ e.signal.reason = "Stop loss triggered"

\* (currentPrice - entryPrice) / entryPrice, the P&L the rules are stated on
PricePnL(e) ==
    IF typeof(e.price) # "number"
    THEN NaN
    ELSE JSDiv(e.price[2] - e.pos.entry_price, e.pos.entry_price)

\* stopLossThreshold < x < takeProfitThreshold
InBand(x) ==
    /\ x.k = "fin"
    /\ ~JSLe(x, STOP_LOSS_THRESHOLD)
    /\ ~JSGe(x, TAKE_PROFIT_THRESHOLD)

\* x and y are the same number (NaN being the same as NaN)
SameValue(x, y) == JSEq(x, y) \/ (x.k = "nan" /\ y.k = "nan")

ExitRule(e) ==
    /\ e.signal.shouldExit
         = ~(InBand(PricePnL(e)) /\ e.holdingTime < MAX_HOLDING_TIME)
    /\ SameValue(e.signal.currentPnL, PricePnL(e))

CheckFailureIsolated ==
    (exitPc = "done" /\ listFetch = "ok" /\ batchResult = "rejected")
    => \A j \in 1..Len(openPositions) :
         j # idx => \E e \in Decisions : e.id = openPositions[j].id

\* C4: when fetching the open-position list fails the batch rejects, no
\* position is evaluated and no repository update is requested.
ListFailureIsFatal ==
    listFetch = "failed"
    => /\ batchResult = "rejected"
       /\ exitPc = "done"
       /\ evaluated = <<>>
       /\ updateCalls = <<>>

ListFailureWitness ==
    /\ listFetch = "failed"
    /\ ActiveIds(positions) # {}

----------------------------------------------------------------------------
(* Price aggregator: properties *)

\* C6: a getPriceData call that finds a cache entry for its mint whose age
\* is below the TTL returns exactly that entry and tries no provider.
FreshCacheServed ==
    \A c \in Callers :
      (call[c].pc # "idle" /\ call[c].cached # NoQuote
       /\ call[c].started - call[c].cached.timestamp < PRICE_CACHE_TTL)
      => /\ call[c].pc = "returned"
         /\ call[c].result = call[c].cached
         /\ call[c].attempts = <<>>

FreshCacheWitness ==
    \E c \in Callers :
      /\ call[c].pc = "returned"
      /\ call[c].producer = "cache"
      /\ call[c].started - call[c].cached.timestamp = PRICE_CACHE_TTL - 1

\* C7: in the provider chain of one getPriceData call each provider is tried
\* at most once.
EachProviderOnce ==
    \A c \in Callers :
      \A j, k \in 1..Len(call[c].attempts) :
        j # k => call[c].attempts[j] # call[c].attempts[k]

\* C8: the quote returned by the chain carries the source tag of the provider
\* that produced its price.
SourceTagIsProducer ==
    \A c \in Callers :
      (call[c].pc = "returned" /\ call[c].producer \in {"jupiter", "pyth"})
      => call[c].result.source = call[c].producer

\* C9: getPriceData throws only when every provider failed or gave no usable
\* value: a call in which some provider gave a usable quote has returned a
\* quote, and a call that threw has tried Birdeye, Jupiter and Pyth.
ThrowsOnlyWhenAllFail ==
    \A c \in Callers :
      /\ (\E k \in 1..Len(call[c].usable) : call[c].usable[k])
         => (call[c].pc = "returned" /\ call[c].result # NoQuote)
      /\ call[c].pc = "threw"
         => {call[c].attempts[k] : k \in 1..Len(call[c].attempts)}
              = {"birdeye", "jupiter", "pyth"}

ThrowsOnlyWitness ==
    \E c \in Callers :
      /\ call[c].pc = "returned"
      /\ Len(call[c].attempts) >= 3
      /\ call[c].usable[Len(call[c].usable)]

\* C10: the error thrown when all providers are exhausted carries the failure
\* reason of every provider that was tried.
ErrorCarriesAllReasons ==
    \A c \in Callers :
      call[c].pc = "threw"
      => {call[c].error[k] : k \in 1..Len(call[c].error)}
           = 1..Len(call[c].attempts)

\* C11: the aggregator never returns or caches a quote whose price is
\* missing or <= 0 or whose confidence is 0: every cache entry and every
\* returned quote is a usable one
OnlyUsableQuotes ==
    /\ \A m \in Mints :
         priceCache[m] # NoQuote =>
             Usable(priceCache[m].price, priceCache[m].confidence)
    /\ \A c \in PriceCallers :
         call[c].pc = "returned" =>
             Usable(call[c].result.price, call[c].result.confidence)

\* C12: every provider call of the aggregator goes through the circuit
\* breaker: a provider the aggregator has invoked has been the subject of an
\* execute call under its key, and a provider about to be invoked has no
\* open breaker
ProviderCallsGuarded ==
    \A c \in PriceCallers :
        /\ \A j \in 1..Len(call[c].attempts) :
             call[c].attempts[j] \in Keys =>
                 lastExec[call[c].attempts[j]].kind # "none"
        /\ call[c].pc \in Keys => ~isOpen(failures[call[c].pc], now)

----------------------------------------------------------------------------
(* Circuit breaker: properties *)

Invoked(e) == e.kind \in {"succeeded", "failed"}

ProbeAfterCoolDown ==
    \A k \in Keys :
        LET e == lastExec[k] IN
        (/\ e.kind # "none"
         /\ e.before.count >= FAILURE_THRESHOLD
         /\ e.at - e.before.lastFailure >= RESET_TIMEOUT_MS)
        => /\ Invoked(e)
           /\ e.kind = "succeeded" =>
                  failures[k] = NoFailure /\ ~isOpen(failures[k], now)

\* a probe issued exactly resetTimeoutMs after the latest failure succeeded
ProbeAfterCoolDownWitness ==
    \E k \in Keys :
        /\ lastExec[k].kind = "succeeded"
        /\ lastExec[k].before.count >= FAILURE_THRESHOLD
        /\ lastExec[k].at - lastExec[k].before.lastFailure = RESET_TIMEOUT_MS
        /\ failures[k] = NoFailure

----------------------------------------------------------------------------
(* Risk scoring and trade evaluation: properties *)

InUnitInterval(x) == JSLeq(Zero, x) /\ JSLeq(x, One)

\* C15: overallRisk lies in [0,1] for every combination of finite,
\* non-negative sub-metrics
OverallRiskInUnitInterval ==
    calc.overallRisk # Null => InUnitInterval(calc.overallRisk)

\* C16: risk scoring never fails: no evaluation ends with an error raised
\* while its risk metrics were computed
RiskScoringNeverFails ==
    ~(evaluation.pc = "threw" /\ evaluation.failedAt = "riskMetrics")

\* C17: an evaluation that returns, returns a signal exactly when the score
\* is >= confidenceThreshold and liquidityUSD is >= minLiquidityUSD, and null
\* otherwise
SignalIffThresholds ==
    evaluation.pc = "returned" =>
        LET sc == evaluation.score
            thr == evaluation.cfg.confidenceThreshold
            liq == evaluation.marketData.liquidityUSD
            minLiq == evaluation.cfg.minLiquidityUSD
            confident == sc.n * thr.d >= thr.n * sc.d
            liquid == liq.n * minLiq.d >= minLiq.n * liq.d
        IN /\ evaluation.outcome \in {"signal", "null"}
           /\ evaluation.outcome = "signal" <=> (confident /\ liquid)
           /\ evaluation.signal = NoTradeSignal <=> evaluation.outcome = "null"

\* a signal was emitted for a score that equals the threshold
SignalIffThresholdsWitness ==
    /\ evaluation.pc = "returned"
    /\ evaluation.outcome = "signal"
    /\ JSEq(evaluation.score, evaluation.cfg.confidenceThreshold)
    /\ evaluation.signal.action = "BUY"

\* clamp(x, lo, hi) on finite numbers
Clamp(x, lo, hi) == IF JSLt(x, lo) THEN lo ELSE IF JSLt(hi, x) THEN hi ELSE x

\* C18: suggestedSize equals clamp(maxPositionSize * confidence *
\* (1 - volatility) * min(1, liquidityDepth/2), 0.1, maxPositionSize) and
\* lies in [0.1, maxPositionSize]
PositionSizeClamped ==
    calc.suggestedSize # Null =>
        LET m == calc.metrics
            half == Rat(m.liquidityDepth.n, 2 * m.liquidityDepth.d)
            depth == IF JSLt(half, One) THEN half ELSE One
            raw == JSMul(JSMul(JSMul(MAX_POSITION_SIZE, calc.score),
                               JSSub(One, m.volatility)), depth)
        IN /\ JSEq(calc.suggestedSize,
                   Clamp(raw, MIN_POSITION_SIZE, MAX_POSITION_SIZE))
           /\ JSLeq(MIN_POSITION_SIZE, calc.suggestedSize)
           /\ JSLeq(calc.suggestedSize, MAX_POSITION_SIZE)

\* the size was computed for a volatility above 1 and a liquidity depth of 0
PositionSizeClampedWitness ==
    /\ calc.suggestedSize = MIN_POSITION_SIZE
    /\ JSLt(One, calc.metrics.volatility)
    /\ calc.metrics.liquidityDepth = Zero

\* C19: no emitted signal carries an infinite or NaN reward-to-risk ratio
SharpeRatioFinite ==
    evaluation.outcome = "signal" => IsFinite(evaluation.signal.sharpeRatio)

----------------------------------------------------------------------------
(* Orchestration cycle: properties *)

\* C20: in a cycle that has ended after its candidates were detected, every
\* candidate was evaluated, whatever happened to the others
SiblingsStillEvaluated ==
    (cycle.pc = "done" /\ cycle.result # "detectionFailed") =>
        Len(cycle.processed) = Len(cycle.tokens)

\* C21: after a cycle that failed, the following cycle starts no earlier
\* than the scheduled wait after the start of the failed one
WaitAfterFailedCycle ==
    (/\ cycle.count >= 2
     /\ cycle.prevResult \in {"detectionFailed", "aborted",
                              "afterLoopFailed"})
    => cycle.startedAt - cycle.prevStartedAt >= CYCLE_WAIT_MS

\* the signal meets both thresholds of the configuration
WithinThresholds(run) ==
    /\ JSLeq(run.cfg.confidenceThreshold, run.signal.confidence)
    /\ JSLeq(run.signal.riskMetrics.overallRisk, run.cfg.maxDrawdown)

ExecuteTradeRetries ==
    /\ execution.attempts <= 3
    /\ execution.pc \in {"idle", "attempt", "returned"}
    /\ execution.pc = "attempt" => Len(execution.failed) = execution.attempts
    /\ execution.pc = "returned" =>
         IF execution.success
         THEN Len(execution.failed) = execution.attempts - 1
         ELSE /\ execution.attempts = 3
              /\ Len(execution.failed) = 3
              /\ execution.error = execution.failed[3]

\* three attempts have failed, the last one for another reason than the
\* first two
ExecuteTradeRetriesWitness ==
    /\ execution.pc = "returned"
    /\ ~execution.success
    /\ execution.failed = <<"quote", "slippage", "send">>
    /\ execution.error = "send"
    /\ execution.delays = <<1000, 2000>>

\* C24: checkExitConditions changes no position, whatever its outcome: a
\* step that changes a stored position is a step of executeExit, and a step
\* in which a position is checked leaves the stored positions and the
\* snapshot it was handed as they were
CheckOnlyReads ==
    [][/\ positions' # positions => exitPc = "executeExit"
       /\ exitPc = "loop" => /\ positions' = positions
                             /\ openPositions' = openPositions]_vars

\* a check has decided to exit and the stored row still is the snapshot
CheckOnlyReadsWitness ==
    /\ exitPc = "executeExit"
    /\ exitSignal.shouldExit
    /\ Len(evaluated) = idx
    /\ positions[openPositions[idx].id] = openPositions[idx]
    /\ \A i \in PosIds : exits[i] = 0

\* C25: executeExit returns true exactly when the repository update
\* succeeded; when the update throws it returns false, stores nothing, and
\* the loop of checkAndExecuteExits goes on to the next open position
ExitFailureIsAValue ==
    [][updateCalls' # updateCalls /\ exitPc = "executeExit" =>
         LET c == updateCalls'[Len(updateCalls')]
         IN /\ c.returned = c.ok
            /\ ~c.ok => positions' = positions /\ exits' = exits
            /\ exitPc' = "loop"
            /\ idx' = idx + 1
            /\ batchResult' = "none"]_vars

\* an update failed, and the position after it was checked in the same batch
ExitFailureIsAValueWitness ==
    /\ batchResult = "resolved"
    /\ \E j \in DOMAIN updateCalls :
         /\ ~updateCalls[j].ok
         /\ ~updateCalls[j].returned
         /\ Len(evaluated) > updateCalls[j].index

\* C26: from one write of a mint's cache slot to the next, the timestamp of
\* the stored quote never decreases, whatever the interleaving of
\* getPriceData calls and clearCache; a written quote carries the time of
\* its write
TimestampNeverDecreases ==
    [][\A m \in Mints :
         priceCache'[m] # priceCache[m] /\ priceCache'[m] # NoQuote =>
           /\ priceCache'[m].timestamp >= writes[m].timestamp
           /\ priceCache'[m].timestamp = writes'[m].timestamp
           /\ priceCache[m] # NoQuote =>
                priceCache'[m].timestamp >= priceCache[m].timestamp]_vars

\* a call that found a stale entry has overwritten it with a later quote,
\* while the other caller's call for the same mint was in flight
TimestampNeverDecreasesWitness ==
    \E c, o \in Callers :
      /\ c # o
      /\ call[c].pc = "returned"
      /\ call[c].producer # "cache"
      /\ call[c].cached # NoQuote
      /\ call[c].cached.timestamp < call[c].result.timestamp
      /\ priceCache[call[c].mint] = call[c].result
      /\ InFlight(o)
      /\ call[o].mint = call[c].mint

\* C29: a getPriceData call that finds no fresh entry enters its own
\* provider chain even while another call for the same mint is in flight,
\* and a call that comes back from the chain with a quote returns it and
\* puts it in the slot over whatever the slot holds: the slot holds the
\* quote written last
LastWriteWins ==
    [][\A c \in Callers :
         /\ (~InFlight(c) /\ call'[c] # call[c]
             /\ ~Fresh(priceCache[call'[c].mint], now))
            => call'[c].pc = "birdeye" /\ call'[c].attempts = <<>>
         /\ (InFlight(c) /\ call'[c].pc = "returned")
            => /\ priceCache'[call[c].mint] = call'[c].result
               /\ writes'[call[c].mint].by = c
               /\ call'[c].attempts # <<>>]_vars

\* both callers missed the cache for the same mint, both ran a chain and
\* returned different quotes, and the slot holds the one written last
LastWriteWinsWitness ==
    /\ \A c \in Callers : /\ call[c].pc = "returned"
                          /\ call[c].mint = "mintA"
                          /\ call[c].producer # "cache"
                          /\ call[c].attempts # <<>>
    /\ call["c1"].result # call["c2"].result
    /\ call["c1"].started = call["c2"].started
    /\ writes["mintA"].by = "c2"
    /\ priceCache["mintA"] = call["c2"].result
    /\ priceCache["mintA"] # call["c1"].result

\* C27: the queue retries by itself: once processQueue has returned, no job
\* is left waiting for an attempt that only a further enqueue call would
\* bring
QueueRetriesByItself ==
    queue.pc = "idle" => queue.entries = <<>>

KeysIndependent ==
    [][\A k \in Keys :
         (\E o \in Keys \ {k} : lastExec'[o] # lastExec[o])
         => /\ failures'[k] = failures[k]
            /\ isOpen(failures'[k], now') <=> isOpen(failures[k], now)]_vars

\* the breaker is open for birdeye, and after it opened an operation for
\* jupiter was let through and succeeded
KeysIndependentWitness ==
    /\ isOpen(failures["birdeye"], now)
    /\ failures["birdeye"].count = 5
    /\ lastExec["jupiter"].kind = "succeeded"
    /\ lastExec["jupiter"].at > failures["birdeye"].lastFailure
    /\ lastExec["jupiter"].before.count > 0

\* C31: once the count of a key has reached the threshold, the breaker for
\* the key is open as long as less than resetTimeoutMs has passed since the
\* latest failure recorded for it, whatever operations started earlier do
\* when they end
StaysOpenUntilCoolDown ==
    \A k \in Keys :
      (pending[k].opened /\ now - pending[k].at < RESET_TIMEOUT_MS)
      => isOpen(failures[k], now)

\* a failed probe: the latest execute of the key found the count at the
\* threshold with the cool-down over, and its operation rejected
FailedProbe(e) == e.kind = "failed" /\ CooledDown(e.before, e.at)

\* C32 as stated: a probe that fails after the cool-down leaves the breaker
\* closed with a count of 1, and when the breaker has opened again after a
\* probe, failureThreshold failures in a row were recorded after that probe
ProbeThenThresholdFurtherFailures ==
    \A k \in Keys :
        LET e == lastExec[k] IN
        /\ FailedProbe(e) =>
             /\ failures[k] = [count |-> 1, lastFailure |-> e.at]
             /\ ~isOpen(failures[k], now)
        /\ (e.kind = "rejected" /\ e.history.all > e.history.run)
           => e.history.run - 1 >= FAILURE_THRESHOLD

\* C32, amended: a probe that fails after the cool-down leaves the breaker
\* closed with a count of 1, and the breaker opens again when
\* failureThreshold failures in a row have been recorded counting that probe,
\* that is failureThreshold - 1 after it
ProbeCountsTowardsThreshold ==
    \A k \in Keys :
        LET e == lastExec[k] IN
        /\ FailedProbe(e) =>
             /\ failures[k] = [count |-> 1, lastFailure |-> e.at]
             /\ ~isOpen(failures[k], now)
        /\ (e.kind = "rejected" /\ e.history.all > e.history.run)
           => /\ e.history.run = FAILURE_THRESHOLD
              /\ e.before.count = FAILURE_THRESHOLD
        /\ (e.kind = "failed" /\ e.history.all > e.history.run
            /\ ~FailedProbe(e))
           => /\ e.before.count = e.history.run
              /\ e.history.run < FAILURE_THRESHOLD

\* the breaker opened, cooled down, a probe failed, and it has opened again
\* and rejected a call
ProbeCountsTowardsThresholdWitness ==
    \E k \in Keys :
        /\ lastExec[k].kind = "rejected"
        /\ lastExec[k].history.all = 2 * FAILURE_THRESHOLD
        /\ lastExec[k].history.run = FAILURE_THRESHOLD
        /\ lastExec[k].at - lastExec[k].before.lastFailure < RESET_TIMEOUT_MS

\* C33: in one executeTrade call at most one swap transaction is sent and
\* confirmed
AtMostOneSwapConfirmed ==
    execution.confirmed <= 1

\* C34: a run of the try block whose quote has a slippage
\* |actualPrice - expectedPrice| / expectedPrice above MAX_SLIPPAGE requests
\* no swap transaction, ends as a failed attempt and is counted in retryCount
NoSwapAboveMaxSlippage ==
    /\ execution.retryCount = Len(execution.failed)
    /\ Len(execution.log) = execution.attempts
    /\ \A j \in DOMAIN execution.log :
         LET a == execution.log[j]
             actualPrice == JSQuot(Fin(a.outAmount, 1), Fin(a.inAmount, 1))
             slippage == JSQuot(MathAbs(JSSub(actualPrice, execution.price)),
                                execution.price)
         IN (a.quoted /\ JSLt(Fin(15, 1000), slippage))
            => /\ ~a.swap
               /\ a.outcome = "slippage"
               /\ j <= Len(execution.failed)
               /\ execution.failed[j] = "slippage"

\* a quote three percent off the expected price used up the first attempt,
\* and the second attempt, with a quote one percent off, went through
NoSwapAboveMaxSlippageWitness ==
    /\ execution.pc = "returned"
    /\ execution.success
    /\ execution.price = One
    /\ Len(execution.log) = 2
    /\ execution.log[1].outAmount = 103
    /\ ~execution.log[1].swap
    /\ execution.log[2].outAmount = 101
    /\ execution.log[2].swap
    /\ execution.retryCount = 1

\* C35: a step of executeExit changes the stored realized and unrealized P&L
\* of the position it exits only; every other stored row stays as it was
ExitChangesOnlyItsPosition ==
    [][\A i \in PosIds :
         positions'[i] # positions[i]
           => /\ exitPc = "executeExit"
              /\ openPositions[idx].id = i]_vars

\* C36: every run of runTradingLoop that has ended called
\* checkAndExecuteExits, also a run whose candidate detection failed
ExitsCheckedInEveryRun ==
    (cycle.kind = "runTradingLoop" /\ cycle.pc = "done")
        => cycle.exitsChecked

\* C37: with overlapping enqueue calls no job is run by two passes at the
\* same time, and no job resolves more than once for its enqueue
JobRunByOnePassOnce ==
    \A j \in 1..MaxOverlapping :
        /\ shared.running[j] <= 1
        /\ shared.resolved[j] <= 1

\* what the latest operation of the cache did
CacheOpAsSpecified ==
    LET l == ttl.last
        age == l.at - l.before.timestamp
    IN /\ l.op = "get" =>
            IF l.before.present /\ age <= TtlMs
            THEN /\ l.result = [defined |-> TRUE, value |-> l.before.value]
                 /\ ttl.map[l.key] = l.before
            ELSE /\ l.result = [defined |-> FALSE, value |-> ""]
                 /\ ~ttl.map[l.key].present
       /\ l.op = "set" =>
            /\ ttl.map[l.key].present
            /\ ttl.map[l.key].timestamp = l.at

\* C39: get returns the stored value while the entry's age is within the
\* TTL, and returns undefined and deletes the entry once the age exceeds it;
\* set restarts the age; and an entry leaves the Map only in such a get, in
\* a delete of its key or in a clear
LazyInvalidation ==
    /\ []CacheOpAsSpecified
    /\ [][\A k \in CacheKeys :
            (ttl.map[k].present /\ ~ttl'.map[k].present)
              => \/ ttl'.last.op = "clear"
                 \/ ttl'.last.op = "delete" /\ ttl'.last.key = k
                 \/ /\ ttl'.last.op \in {"get", "has"}
                    /\ ttl'.last.key = k
                    /\ now - ttl.map[k].timestamp > TtlMs]_vars

\* an entry set at time 0 was read a millisecond after the TTL: the get
\* returned undefined and the entry is gone
LazyInvalidationWitness ==
    /\ ttl.last.op = "get"
    /\ ttl.last.before.present
    /\ ttl.last.before.timestamp = 0
    /\ ttl.last.at = TtlMs + 1
    /\ ~ttl.last.result.defined
    /\ ~ttl.map[ttl.last.key].present

\* what a request call has done so far
RequestAsSpecified ==
    LET retryable == {"429", "ECONNABORTED", "ENOTFOUND"}
    IN /\ http.requests <= http.options.maxRetries + 1
       /\ http.retried \subseteq retryable
       /\ http.pc = "thrown" =>
            /\ http.result = [kind |-> "throw", value |-> http.lastError]
            /\ http.lastError \in retryable =>
                 http.requests = http.options.maxRetries + 1
       /\ http.cacheSets > 0 =>
            /\ http.cacheSets = 1
            /\ http.pc = "returned"
            /\ http.result.kind = "response"
       /\ (/\ ttl.last.op = "get"
           /\ ttl.last.key = http.cacheKey
           /\ ttl.last.before.present
           /\ ttl.last.at - ttl.last.before.timestamp <= TtlMs) =>
            /\ http.requests = 0
            /\ http.pc = "returned"
            /\ http.result = [kind |-> "cached",
                              value |-> ttl.last.before.value]

====
